---- MODULE Spec2Model ----
(***************************************************************************)
(* Model of the wireframe renderer's border-collapse analysis              *)
(* (src/src/render.ts) and of the component resolver (src/src/parser.ts).  *)
(*                                                                         *)
(* Optional JavaScript values are modelled explicitly:                     *)
(*   - an optional string (outline, layout) is the string itself or Undef; *)
(*   - an optional number (gap, grow) is <<>> (undefined) or <<n>>;        *)
(*   - a Padding is <<>> (undefined), <<n>> (a number) or <<v, h>>.        *)
(***************************************************************************)
EXTENDS Integers, Sequences, FiniteSets, TLC

VARIABLES
    rc,      \* the arguments of the running renderChildren call and its loop index
    out,     \* the RenderContext computed for each child so far
    frame,   \* the resolved Frame handed to render
    stack,   \* the renderChildren calls in progress, innermost last
    flags,   \* the RenderContext each rendered node received, by its path
    wireframe,   \* the parsed wireframe file handed to resolveFrames
    componentsFile,  \* the parsed components file
    resolvedFrames,  \* the frames resolveFrames has resolved so far
    pc       \* where render or resolveFrames is

vars == <<rc, out, frame, stack, flags, wireframe, componentsFile, resolvedFrames, pc>>

\* Largest number of children of one container.
MaxKids == 3

Undef == "undefined"

-----------------------------------------------------------------------------
(* Resolved nodes                                                          *)

\* A resolved box: { type: 'box', props: {layout, gap, padding, outline, grow}, children }
BoxNode(layout, gap, padding, outline, grow, children) ==
    [type |-> "box", layout |-> layout, gap |-> gap, padding |-> padding,
     outline |-> outline, grow |-> grow, children |-> children]

\* A resolved text node: it has neither box props nor children.
TextNode ==
    [type |-> "text", layout |-> Undef, gap |-> <<>>, padding |-> <<>>,
     outline |-> Undef, grow |-> <<>>, children |-> <<>>]

\* prevChild = null
NullNode ==
    [type |-> "null", layout |-> Undef, gap |-> <<>>, padding |-> <<>>,
     outline |-> Undef, grow |-> <<>>, children |-> <<>>]

RenderContext(t, l, b, r) ==
    [collapseTop |-> t, collapseLeft |-> l, collapseBottom |-> b, collapseRight |-> r]

defaultContext == RenderContext(FALSE, FALSE, FALSE, FALSE)

getPadding(padding) ==
    IF Len(padding) = 0 \/ (Len(padding) = 1 /\ padding[1] = 0)
    THEN [top |-> 0, right |-> 0, bottom |-> 0, left |-> 0]
    ELSE IF Len(padding) = 1
    THEN [top |-> padding[1], right |-> padding[1], bottom |-> padding[1], left |-> padding[1]]
    ELSE [top |-> padding[1], right |-> padding[2], bottom |-> padding[1], left |-> padding[2]]

\* outlineClass(outline): the class that paints the border, or '' for none
outlineClass(outline) ==
    CASE outline = "thin" -> "outline-thin"
      [] outline = "dashed" -> "outline-dashed"
      [] outline = "thick" -> "outline-thick"
      [] OTHER -> ""

hasOutline(node) ==
    IF node.type = "box"
    THEN node.outline # Undef /\ node.outline # "none"
    ELSE FALSE

hasGrow(node) ==
    IF node.type = "box"
    THEN node.grow = <<1>>
    ELSE FALSE

RECURSIVE hasLeadingOutline(_, _)

\* Mutant of hasLeadingOutline: the first child alone answers for every edge,
\* also for the edge all children share.
hasLeadingOutline_FirstChildOnly(node, direction) ==
    IF hasOutline(node) THEN TRUE
    ELSE IF node.type = "box" \/ node.type = "frame"
    THEN LET children == node.children
             pad == getPadding(node.padding)
         IN  IF Len(children) = 0 THEN FALSE
             ELSE IF direction = "top" /\ pad.top > 0 THEN FALSE
             ELSE IF direction = "left" /\ pad.left > 0 THEN FALSE
             ELSE hasLeadingOutline(children[1], direction)
    ELSE FALSE

hasLeadingOutline(node, direction) ==
    IF hasOutline(node) THEN TRUE
    ELSE IF node.type = "box" \/ node.type = "frame"
    THEN LET children == node.children
             pad == getPadding(node.padding)
             isRow == node.layout = "row"
         IN  IF Len(children) = 0 THEN FALSE
             ELSE IF direction = "top" /\ pad.top > 0 THEN FALSE
             ELSE IF direction = "left" /\ pad.left > 0 THEN FALSE
             ELSE IF direction = "top"
             THEN IF isRow
                  THEN \E k \in 1..Len(children) : hasLeadingOutline(children[k], "top")
                  ELSE hasLeadingOutline(children[1], "top")
             ELSE IF isRow
                  THEN hasLeadingOutline(children[1], "left")
                  ELSE \E k \in 1..Len(children) : hasLeadingOutline(children[k], "left")
    ELSE FALSE

RECURSIVE hasTrailingOutline(_, _)
hasTrailingOutline(node, direction) ==
    IF hasOutline(node) THEN TRUE
    ELSE IF node.type = "box" \/ node.type = "frame"
    THEN LET children == node.children
             pad == getPadding(node.padding)
             isRow == node.layout = "row"
         IN  IF Len(children) = 0 THEN FALSE
             ELSE IF direction = "bottom" /\ pad.bottom > 0 THEN FALSE
             ELSE IF direction = "right" /\ pad.right > 0 THEN FALSE
             ELSE IF direction = "bottom"
             THEN IF isRow
                  THEN \E k \in 1..Len(children) : hasTrailingOutline(children[k], "bottom")
                  ELSE hasTrailingOutline(children[Len(children)], "bottom")
             ELSE IF isRow
                  THEN hasTrailingOutline(children[Len(children)], "right")
                  ELSE \E k \in 1..Len(children) : hasTrailingOutline(children[k], "right")
    ELSE FALSE

-----------------------------------------------------------------------------
(* computeChildContext                                                     *)

\* Mutant of isColumn: only a layout spelled out as column counts as a column.
isColumn_ExplicitOnly(parentLayout) == parentLayout = "column"

\* const isColumn = parentLayout !== 'row'
isColumn(parentLayout) == parentLayout # "row"

\* Mutant of hasGap: the comparison written >= 0, so that a zero gap counts as a gap.
hasGap_GreaterOrEqual(parentGap) == IF Len(parentGap) = 0 THEN TRUE ELSE parentGap[1] >= 0

\* Mutant of hasGap: the gap is never looked at.
hasGap_Ignored(parentGap) == FALSE

\* const hasGap = (parentGap ?? 0) > 0
hasGap(parentGap) == IF Len(parentGap) = 0 THEN FALSE ELSE parentGap[1] > 0

\* const isLast = index === totalChildren - 1
isLast(index, totalChildren) == index = totalChildren - 1

\* Mutant of childTouches: the last child always counts as touching the edge.
childTouches_Always(parentHasGrow, child) == TRUE

\* Mutant of childTouches: the child's own grow is forgotten.
childTouches_ParentOnly(parentHasGrow, child) == ~parentHasGrow

\* childTouchesBottom / childTouchesRight / childTouchesTrailing
childTouches(parentHasGrow, child) == ~parentHasGrow \/ hasGrow(child)

\* Mutant of siblingCollapse: the child's own leading outline is not checked.
siblingCollapse_TrailingOnly(child, parentLayout, parentGap, prevChild) ==
    LET hit(trail) ==
            /\ ~hasGap(parentGap)
            /\ prevChild.type # "null"
            /\ hasTrailingOutline(prevChild, trail)
    IN  IF isColumn(parentLayout)
        THEN RenderContext(hit("bottom"), FALSE, FALSE, FALSE)
        ELSE RenderContext(FALSE, hit("right"), FALSE, FALSE)

\* "Collapse with previous sibling": the flags this block sets.
siblingCollapse(child, parentLayout, parentGap, prevChild) ==
    LET hit(trail, lead) ==
            /\ ~hasGap(parentGap)
            /\ prevChild.type # "null"
            /\ hasTrailingOutline(prevChild, trail)
            /\ hasLeadingOutline(child, lead)
    IN  IF isColumn(parentLayout)
        THEN RenderContext(hit("bottom", "top"), FALSE, FALSE, FALSE)
        ELSE RenderContext(FALSE, hit("right", "left"), FALSE, FALSE)

\* Mutant of parentCollapse: the cross-axis edges are treated like the main-axis
\* ones, collapsing for the first and the last child only.
parentCollapse_FirstLastOnly(child, index, totalChildren, parentLayout, parentPadding, parentHasGrow) ==
    LET pad == getPadding(parentPadding)
        isFirst == index = 0
        last == isLast(index, totalChildren)
        touches == childTouches(parentHasGrow, child)
    IN  IF isColumn(parentLayout)
        THEN RenderContext(
                isFirst /\ pad.top = 0 /\ hasLeadingOutline(child, "top"),
                isFirst /\ pad.left = 0 /\ hasLeadingOutline(child, "left"),
                last /\ touches /\ pad.bottom = 0 /\ hasTrailingOutline(child, "bottom"),
                last /\ pad.right = 0 /\ hasTrailingOutline(child, "right"))
        ELSE RenderContext(
                isFirst /\ pad.top = 0 /\ hasLeadingOutline(child, "top"),
                isFirst /\ pad.left = 0 /\ hasLeadingOutline(child, "left"),
                last /\ pad.bottom = 0 /\ hasTrailingOutline(child, "bottom"),
                last /\ touches /\ pad.right = 0 /\ hasTrailingOutline(child, "right"))

\* "Collapse with parent's edges": the flags the parentHasOutline block sets.
parentCollapse(child, index, totalChildren, parentLayout, parentPadding, parentHasGrow) ==
    LET pad == getPadding(parentPadding)
        isFirst == index = 0
        last == isLast(index, totalChildren)
        touches == childTouches(parentHasGrow, child)
    IN  IF isColumn(parentLayout)
        THEN RenderContext(
                isFirst /\ pad.top = 0 /\ hasLeadingOutline(child, "top"),
                pad.left = 0 /\ hasLeadingOutline(child, "left"),
                last /\ touches /\ pad.bottom = 0 /\ hasTrailingOutline(child, "bottom"),
                pad.right = 0 /\ hasTrailingOutline(child, "right"))
        ELSE RenderContext(
                pad.top = 0 /\ hasLeadingOutline(child, "top"),
                isFirst /\ pad.left = 0 /\ hasLeadingOutline(child, "left"),
                pad.bottom = 0 /\ hasTrailingOutline(child, "bottom"),
                last /\ touches /\ pad.right = 0 /\ hasTrailingOutline(child, "right"))

\* Mutant of inheritCollapse: the parent's padding is not checked.
inheritCollapse_NoPadding(child, index, totalChildren, parentLayout, parentPadding, parentHasGrow, parentContext) ==
    LET isFirst == index = 0
        last == isLast(index, totalChildren)
        touches == childTouches(parentHasGrow, child)
    IN  IF isColumn(parentLayout)
        THEN RenderContext(
                isFirst /\ parentContext.collapseTop,
                parentContext.collapseLeft,
                last /\ touches /\ parentContext.collapseBottom,
                parentContext.collapseRight)
        ELSE RenderContext(
                parentContext.collapseTop,
                isFirst /\ parentContext.collapseLeft,
                parentContext.collapseBottom,
                last /\ touches /\ parentContext.collapseRight)

\* Mutant of inheritCollapse: the leading main-axis flag is handed to every child.
inheritCollapse_LeadingToAll(child, index, totalChildren, parentLayout, parentPadding, parentHasGrow, parentContext) ==
    LET pad == getPadding(parentPadding)
        last == isLast(index, totalChildren)
        touches == childTouches(parentHasGrow, child)
    IN  IF isColumn(parentLayout)
        THEN RenderContext(
                pad.top = 0 /\ parentContext.collapseTop,
                pad.left = 0 /\ parentContext.collapseLeft,
                last /\ touches /\ pad.bottom = 0 /\ parentContext.collapseBottom,
                pad.right = 0 /\ parentContext.collapseRight)
        ELSE RenderContext(
                pad.top = 0 /\ parentContext.collapseTop,
                pad.left = 0 /\ parentContext.collapseLeft,
                pad.bottom = 0 /\ parentContext.collapseBottom,
                last /\ touches /\ pad.right = 0 /\ parentContext.collapseRight)

\* "Inherit collapse from parent context": the flags the !parentHasOutline block sets.
inheritCollapse(child, index, totalChildren, parentLayout, parentPadding, parentHasGrow, parentContext) ==
    LET pad == getPadding(parentPadding)
        isFirst == index = 0
        last == isLast(index, totalChildren)
        touches == childTouches(parentHasGrow, child)
    IN  IF isColumn(parentLayout)
        THEN RenderContext(
                isFirst /\ pad.top = 0 /\ parentContext.collapseTop,
                pad.left = 0 /\ parentContext.collapseLeft,
                last /\ touches /\ pad.bottom = 0 /\ parentContext.collapseBottom,
                pad.right = 0 /\ parentContext.collapseRight)
        ELSE RenderContext(
                pad.top = 0 /\ parentContext.collapseTop,
                isFirst /\ pad.left = 0 /\ parentContext.collapseLeft,
                pad.bottom = 0 /\ parentContext.collapseBottom,
                last /\ touches /\ pad.right = 0 /\ parentContext.collapseRight)

\* Each flag starts false and is only ever set to true, so the result is the
\* disjunction of what the three blocks set.
computeChildContext(child, index, totalChildren, parentLayout, parentGap, parentPadding, parentHasOutline, parentHasGrow, prevChild, parentContext) ==
    LET s == siblingCollapse(child, parentLayout, parentGap, prevChild)
        p == IF parentHasOutline
             THEN parentCollapse(child, index, totalChildren, parentLayout,
                                 parentPadding, parentHasGrow)
             ELSE defaultContext
        h == IF ~parentHasOutline
             THEN inheritCollapse(child, index, totalChildren, parentLayout,
                                  parentPadding, parentHasGrow, parentContext)
             ELSE defaultContext
    IN  RenderContext(s.collapseTop \/ p.collapseTop \/ h.collapseTop,
                      s.collapseLeft \/ p.collapseLeft \/ h.collapseLeft,
                      s.collapseBottom \/ p.collapseBottom \/ h.collapseBottom,
                      s.collapseRight \/ p.collapseRight \/ h.collapseRight)

-----------------------------------------------------------------------------
(* Inputs                                                                  *)

Layouts == {"row", "column"}
Gaps == {<<>>, <<0>>, <<8>>}
Paddings == {<<>>, <<16>>, <<8, 0>>, <<0, 8>>}
Contexts == {RenderContext(t, l, b, r) : t \in BOOLEAN, l \in BOOLEAN, b \in BOOLEAN, r \in BOOLEAN}

Leaf(outline, grow) == BoxNode(Undef, <<>>, <<>>, outline, grow, <<>>)

\* The children a container is given: text, bordered and unbordered boxes,
\* growing or not, and unbordered wrappers around a bordered box.
Kids ==
    { TextNode,
      Leaf("thin", <<>>),
      Leaf("thin", <<1>>),
      BoxNode("column", <<>>, <<>>, Undef, <<1>>, <<Leaf("dashed", <<>>)>>),
      BoxNode("row", <<>>, <<0, 8>>, "none", <<0>>, <<Leaf("thick", <<>>), TextNode>>) }

RECURSIVE SeqsUpTo(_, _)
SeqsUpTo(S, n) ==
    IF n = 0 THEN {<<>>}
    ELSE LET shorter == SeqsUpTo(S, n - 1)
         IN  shorter \cup {Append(q, x) : q \in {t \in shorter : Len(t) = n - 1}, x \in S}

-----------------------------------------------------------------------------
(* renderChildren: the loop that calls computeChildContext for each child, *)
(* with prevChild the child before it.                                     *)

InitCtx ==
    /\ rc \in [children : SeqsUpTo(Kids, MaxKids) \ {<<>>},
               parentLayout : Layouts, parentGap : Gaps, parentPadding : Paddings,
               parentHasOutline : BOOLEAN, parentHasGrow : BOOLEAN,
               parentContext : Contexts, i : {0}]
    /\ out = <<>>
    /\ frame = NullNode
    /\ stack = <<>>
    /\ flags = <<>>
    /\ wireframe = <<>>
    /\ componentsFile = <<>>
    /\ resolvedFrames = <<>>
    /\ pc = "idle"

prevChildAt(children, i) == IF i = 0 THEN NullNode ELSE children[i]

renderChildrenStep ==
    /\ rc.i < Len(rc.children)
    /\ out' = Append(out,
                computeChildContext(rc.children[rc.i + 1], rc.i, Len(rc.children),
                                    rc.parentLayout, rc.parentGap, rc.parentPadding,
                                    rc.parentHasOutline, rc.parentHasGrow,
                                    prevChildAt(rc.children, rc.i), rc.parentContext))
    /\ rc' = [rc EXCEPT !.i = rc.i + 1]
    /\ UNCHANGED <<frame, stack, flags, wireframe, componentsFile, resolvedFrames, pc>>

NextCtx == renderChildrenStep

SpecCtx == InitCtx /\ [][NextCtx]_vars

-----------------------------------------------------------------------------
(* render: renderNode on a Frame, then on every node below it.             *)

FrameNode(layout, gap, padding, children) ==
    [type |-> "frame", layout |-> layout, gap |-> gap, padding |-> padding,
     outline |-> Undef, grow |-> <<>>, children |-> children]

\* The box renderNode injects around a frame's children.
wrapper(node) ==
    BoxNode(node.layout, node.gap, node.padding, "thin", <<1>>, node.children)

\* const nodeHasGrow = !!node.props.grow
nodeHasGrow(node) == Len(node.grow) > 0 /\ node.grow[1] # 0

\* Mutant of childrenCall: a bordered box hands on the context it received, as
\* an unbordered one does.
childrenCall_AsUnbordered(node, ctx, path) ==
    [children |-> node.children,
     parentLayout |-> node.layout, parentGap |-> node.gap, parentPadding |-> node.padding,
     parentHasOutline |-> FALSE, parentHasGrow |-> nodeHasGrow(node),
     parentContext |-> ctx,
     i |-> 0, path |-> path]

\* The renderChildren call renderNode makes for a box that received ctx.
childrenCall(node, ctx, path) ==
    [children |-> node.children,
     parentLayout |-> node.layout, parentGap |-> node.gap, parentPadding |-> node.padding,
     parentHasOutline |-> hasOutline(node), parentHasGrow |-> nodeHasGrow(node),
     parentContext |-> IF hasOutline(node) THEN defaultContext ELSE ctx,
     i |-> 0, path |-> path]

Frames ==
    { FrameNode(l, g, p, c) : l \in Layouts \cup {Undef}, g \in Gaps, p \in {<<>>, <<16>>},
                              c \in SeqsUpTo(Kids, MaxKids) }

Init ==
    /\ frame \in Frames
    /\ stack = <<>>
    /\ flags = <<>>
    /\ pc = "start"
    /\ rc = <<>>
    /\ out = <<>>
    /\ wireframe = <<>>
    /\ componentsFile = <<>>
    /\ resolvedFrames = <<>>

\* renderNode(frame): the wrapper box is rendered with defaultContext.
renderFrame ==
    /\ pc = "start"
    /\ flags' = <<[path |-> <<>>, ctx |-> defaultContext]>>
    /\ stack' = <<childrenCall(wrapper(frame), defaultContext, <<>>)>>
    /\ pc' = "walk"
    /\ UNCHANGED <<frame, rc, out, wireframe, componentsFile, resolvedFrames>>

\* One iteration of the innermost renderChildren loop: the child's context is
\* computed and renderNode(child, ctx) starts; a box (or a nested frame's
\* wrapper) then renders its own children.
renderChild ==
    /\ pc = "walk"
    /\ stack # <<>>
    /\ LET top == stack[Len(stack)]
           child == top.children[top.i + 1]
           path == Append(top.path, top.i + 1)
           ctx == computeChildContext(child, top.i, Len(top.children),
                                      top.parentLayout, top.parentGap, top.parentPadding,
                                      top.parentHasOutline, top.parentHasGrow,
                                      prevChildAt(top.children, top.i), top.parentContext)
           advanced == [stack EXCEPT ![Len(stack)].i = top.i + 1]
       IN  /\ top.i < Len(top.children)
           /\ flags' = Append(flags, [path |-> path,
                                      ctx |-> IF child.type = "frame" THEN defaultContext ELSE ctx])
           /\ stack' = IF child.type = "box"
                       THEN Append(advanced, childrenCall(child, ctx, path))
                       ELSE IF child.type = "frame"
                       THEN Append(advanced, childrenCall(wrapper(child), defaultContext, path))
                       ELSE advanced
    /\ UNCHANGED <<frame, pc, rc, out, wireframe, componentsFile, resolvedFrames>>

\* The innermost renderChildren loop has run over all its children.
renderReturn ==
    /\ pc = "walk"
    /\ stack # <<>>
    /\ stack[Len(stack)].i = Len(stack[Len(stack)].children)
    /\ stack' = SubSeq(stack, 1, Len(stack) - 1)
    /\ pc' = IF Len(stack) = 1 THEN "done" ELSE "walk"
    /\ UNCHANGED <<frame, flags, rc, out, wireframe, componentsFile, resolvedFrames>>

Next == renderFrame \/ renderChild \/ renderReturn

Spec == Init /\ [][Next]_vars

\* The context recorded for the node at a path (defaultContext if not rendered yet).
flagAt(path) ==
    IF \E k \in 1..Len(flags) : flags[k].path = path
    THEN flags[CHOOSE k \in 1..Len(flags) : flags[k].path = path].ctx
    ELSE defaultContext

rendered(path) == \E k \in 1..Len(flags) : flags[k].path = path

-----------------------------------------------------------------------------
(* JavaScript values, as YAML.parse produces them.                         *)
(* A string is its sequence of characters; an object is the sequence of    *)
(* its own properties, in insertion order. Every value inherits the        *)
(* members of Object.prototype; of the other prototypes only length (of    *)
(* strings and arrays) is modelled, and array indices are not property     *)
(* names here.                                                             *)

JNull == [k |-> "null"]
JUndef == [k |-> "undefined"]
JStr(s) == [k |-> "string", s |-> s]
JNum(n) == [k |-> "number", n |-> n]
JBool(b) == [k |-> "boolean", b |-> b]
JArr(a) == [k |-> "array", a |-> a]
JObj(o) == [k |-> "object", o |-> o]
\* A built-in function, as a property read finds it on a prototype.
JFun(name) == [k |-> "function", name |-> name]
Prop(key, val) == [key |-> key, val |-> val]

Upper == {"A", "B", "C", "D", "E", "F", "G", "H", "I", "J", "K", "L", "M",
          "N", "O", "P", "Q", "R", "S", "T", "U", "V", "W", "X", "Y", "Z"}
Lower == {"a", "b", "c", "d", "e", "f", "g", "h", "i", "j", "k", "l", "m",
          "n", "o", "p", "q", "r", "s", "t", "u", "v", "w", "x", "y", "z"}
DigitChars == <<"0", "1", "2", "3", "4", "5", "6", "7", "8", "9">>
\* \w
WordChars == Upper \cup Lower \cup {DigitChars[d] : d \in 1..10} \cup {"_"}
\* what trim() removes
Whitespace == {" ", "\t", "\n"}

isNullish(v) == v.k = "null" \/ v.k = "undefined"

truthy(v) ==
    CASE v.k = "null" -> FALSE
      [] v.k = "undefined" -> FALSE
      [] v.k = "string" -> Len(v.s) > 0
      [] v.k = "number" -> v.n # 0
      [] v.k = "boolean" -> v.b
      [] OTHER -> TRUE

S_proto == <<"_", "_", "p", "r", "o", "t", "o", "_", "_">>
S_length == <<"l", "e", "n", "g", "t", "h">>

\* The methods every value inherits from Object.prototype.
ObjectPrototype ==
    { <<"c", "o", "n", "s", "t", "r", "u", "c", "t", "o", "r">>,
      <<"t", "o", "S", "t", "r", "i", "n", "g">>,
      <<"v", "a", "l", "u", "e", "O", "f">>,
      <<"h", "a", "s", "O", "w", "n", "P", "r", "o", "p", "e", "r", "t", "y">>,
      <<"i", "s", "P", "r", "o", "t", "o", "t", "y", "p", "e", "O", "f">>,
      <<"p", "r", "o", "p", "e", "r", "t", "y", "I", "s", "E", "n", "u", "m", "e", "r", "a", "b", "l", "e">>,
      <<"t", "o", "L", "o", "c", "a", "l", "e", "S", "t", "r", "i", "n", "g">> }

\* Object.hasOwn(obj, key)
hasOwn(v, key) ==
    v.k = "object" /\ \E i \in 1..Len(v.o) : v.o[i].key = key

\* What a read of key finds along the prototype chain of a value that has no
\* own property key.
inherited(v, key) ==
    IF key = S_length /\ v.k = "array" THEN JNum(Len(v.a))
    ELSE IF key = S_length /\ v.k = "string" THEN JNum(Len(v.s))
    ELSE IF key \in ObjectPrototype THEN JFun(key)
    ELSE IF key = S_proto THEN JObj(<<>>)
    ELSE JUndef

\* key in obj, for an object or an array (on any other value the operator throws)
hasKey(v, key) ==
    hasOwn(v, key) \/ inherited(v, key).k # "undefined"

\* obj[key] (on null and undefined the read throws)
getProp(v, key) ==
    IF isNullish(v) THEN JUndef
    ELSE IF hasOwn(v, key)
    THEN v.o[CHOOSE i \in 1..Len(v.o) : v.o[i].key = key].val
    ELSE inherited(v, key)

\* { ...obj, [key]: val }
RECURSIVE setProp(_, _, _)
setProp(o, key, val) ==
    IF o = <<>> THEN <<Prop(key, val)>>
    ELSE IF Head(o).key = key THEN <<Prop(key, val)>> \o Tail(o)
    ELSE <<Head(o)>> \o setProp(Tail(o), key, val)

spread(v) == IF v.k = "object" THEN v.o ELSE <<>>

RECURSIVE numChars(_)
numChars(n) ==
    IF n < 0 THEN <<"-">> \o numChars(0 - n)
    ELSE IF n < 10 THEN <<DigitChars[n + 1]>>
    ELSE numChars(n \div 10) \o <<DigitChars[(n % 10) + 1]>>

\* String(value)
RECURSIVE toString(_)
toString(v) ==
    CASE v.k = "string" -> v.s
      [] v.k = "number" -> numChars(v.n)
      [] v.k = "boolean" -> IF v.b THEN <<"t", "r", "u", "e">> ELSE <<"f", "a", "l", "s", "e">>
      [] v.k = "null" -> <<"n", "u", "l", "l">>
      [] v.k = "undefined" -> <<"u", "n", "d", "e", "f", "i", "n", "e", "d">>
      [] v.k = "function" -> <<"f", "u", "n", "c", "t", "i", "o", "n", " ">> \o v.name \o <<"(", ")", " ", "{", " ", "[", "n", "a", "t", "i", "v", "e", " ", "c", "o", "d", "e", "]", " ", "}">>
      [] v.k = "array" ->
            LET RECURSIVE join(_)
                join(a) ==
                    IF a = <<>> THEN <<>>
                    ELSE (IF isNullish(Head(a)) THEN <<>> ELSE toString(Head(a)))
                         \o (IF Len(a) > 1 THEN <<",">> \o join(Tail(a)) ELSE <<>>)
            IN  join(v.a)
      [] OTHER -> <<"[", "o", "b", "j", "e", "c", "t", " ", "O", "b", "j", "e", "c", "t", "]">>

RECURSIVE trimStart(_)
trimStart(s) == IF s # <<>> /\ Head(s) \in Whitespace THEN trimStart(Tail(s)) ELSE s

RECURSIVE trimEnd(_)
trimEnd(s) ==
    IF s # <<>> /\ s[Len(s)] \in Whitespace THEN trimEnd(SubSeq(s, 1, Len(s) - 1)) ELSE s

trim(s) == trimEnd(trimStart(s))

\* JSON.parse(JSON.stringify(value))
RECURSIVE jsonClone(_)
jsonClone(v) ==
    CASE v.k = "array" ->
            JArr([i \in 1..Len(v.a) |->
                    IF v.a[i].k \in {"undefined", "function"} THEN JNull ELSE jsonClone(v.a[i])])
      [] v.k = "object" ->
            LET RECURSIVE entries(_)
                entries(o) ==
                    IF o = <<>> THEN <<>>
                    ELSE (IF Head(o).val.k \in {"undefined", "function"} THEN <<>>
                          ELSE <<Prop(Head(o).key, jsonClone(Head(o).val))>>)
                         \o entries(Tail(o))
            IN  JObj(entries(v.o))
      [] OTHER -> v

-----------------------------------------------------------------------------
(* substituteProps                                                         *)

\* The length of the run of \w characters of s that starts at position i.
RECURSIVE wordRun(_, _)
wordRun(s, i) ==
    IF i <= Len(s) /\ s[i] \in WordChars THEN 1 + wordRun(s, i + 1) ELSE 0

\* The match of /\{\{(\w+)(?:\.(\w+))?\}\}/ that starts at position i, if any.
\* field is <<>> when the optional group took no part; next is the position
\* after the match.
matchAt(s, i) ==
    LET n == wordRun(s, i + 2)
        afterName == i + 2 + n
        m == wordRun(s, afterName + 1)
        afterField == afterName + 1 + m
        closes(j) == j + 1 <= Len(s) /\ s[j] = "}" /\ s[j + 1] = "}"
        opens == i + 1 <= Len(s) /\ s[i] = "{" /\ s[i + 1] = "{" /\ n > 0
    IN  IF opens /\ afterName <= Len(s) /\ s[afterName] = "." /\ m > 0 /\ closes(afterField)
        THEN [ok |-> TRUE, name |-> SubSeq(s, i + 2, afterName - 1),
              field |-> SubSeq(s, afterName + 1, afterField - 1), next |-> afterField + 2]
        ELSE IF opens /\ closes(afterName)
        THEN [ok |-> TRUE, name |-> SubSeq(s, i + 2, afterName - 1),
              field |-> <<>>, next |-> afterName + 2]
        ELSE [ok |-> FALSE, name |-> <<>>, field |-> <<>>, next |-> i + 1]

\* The replace callback as it would be if it looked the whole match up
\* rather than the captured name: nothing is found, the match stays.
replacement_LooksUpMatch(match, propName, field, props) ==
    IF getProp(props, match).k = "undefined" THEN match
    ELSE toString(getProp(props, match))

\* The replace callback: what a match is replaced by.
replacement(match, propName, field, props) ==
    LET value == getProp(props, propName)
    IN  IF value.k = "undefined" THEN match
        ELSE IF field # <<>> /\ (value.k = "object" \/ value.k = "array")
        THEN LET fieldValue == getProp(value, field)
             IN  IF fieldValue.k # "undefined" THEN toString(fieldValue) ELSE <<>>
        ELSE toString(value)

\* obj.replace(regex, callback) from position i on: the text up to the
\* leftmost match is kept, the match is replaced, and the search goes on
\* after the match.
RECURSIVE replaceFrom(_, _, _)
replaceFrom(s, i, props) ==
    LET starts == {j \in i..Len(s) : matchAt(s, j).ok}
    IN  IF starts = {} THEN SubSeq(s, i, Len(s))
        ELSE LET j == CHOOSE j \in starts : \A k \in starts : j <= k
                 m == matchAt(s, j)
             IN  SubSeq(s, i, j - 1)
                    \o replacement(SubSeq(s, j, m.next - 1), m.name, m.field, props)
                    \o replaceFrom(s, m.next, props)

RECURSIVE substituteProps(_, _)
substituteProps(obj, props) ==
    CASE obj.k = "string" -> JStr(replaceFrom(obj.s, 1, props))
      [] obj.k = "array" -> JArr([i \in 1..Len(obj.a) |-> substituteProps(obj.a[i], props)])
      [] obj.k = "object" ->
            JObj([i \in 1..Len(obj.o) |->
                    Prop(obj.o[i].key, substituteProps(obj.o[i].val, props))])
      [] OTHER -> obj

-----------------------------------------------------------------------------
(* resolveNode, resolveChildren, resolveFrames                             *)

S_Frame == <<"F", "r", "a", "m", "e">>
S_Box == <<"B", "o", "x">>
S_Text == <<"T", "e", "x", "t">>
S_Icon == <<"I", "c", "o", "n">>
S_Cursor == <<"C", "u", "r", "s", "o", "r">>
S_Map == <<"M", "a", "p">>
S_Chart == <<"C", "h", "a", "r", "t">>
S_children == <<"c", "h", "i", "l", "d", "r", "e", "n">>
S_variant == <<"v", "a", "r", "i", "a", "n", "t">>
S_variants == <<"v", "a", "r", "i", "a", "n", "t", "s">>
S_default == <<"d", "e", "f", "a", "u", "l", "t">>
S_link == <<"l", "i", "n", "k">>
S_label == <<"l", "a", "b", "e", "l">>
S_item == <<"i", "t", "e", "m">>
S_outline == <<"o", "u", "t", "l", "i", "n", "e">>
S_dashed == <<"d", "a", "s", "h", "e", "d">>
S_content == <<"c", "o", "n", "t", "e", "n", "t">>
S_style == <<"s", "t", "y", "l", "e">>
S_caption == <<"c", "a", "p", "t", "i", "o", "n">>
S_thin == <<"t", "h", "i", "n">>
S_target == <<"t", "a", "r", "g", "e", "t">>
S_items == <<"i", "t", "e", "m", "s">>
S_childrenSlot == <<"$", "c", "h", "i", "l", "d", "r", "e", "n">>
S_each == <<"$", "e", "a", "c", "h">>
S_template == <<"$", "t", "e", "m", "p", "l", "a", "t", "e">>

isPascalCase(str) == Len(str) > 0 /\ str[1] \in Upper

EmptyObj == JObj(<<>>)

\* A resolved node. Nodes without children carry none; the trajectories of a
\* map and the series of a chart are left out.
ResolvedNode(type, props, children) == [type |-> type, props |-> props, children |-> children]

\* return { type: 'box', props: {}, children: [] }
emptyBox == ResolvedNode("box", EmptyObj, <<>>)

\* The placeholder for a component that is not in the library.
notFoundBox(componentName) ==
    ResolvedNode("box", JObj(<<Prop(S_outline, JStr(S_dashed))>>),
        << ResolvedNode("text",
               JObj(<<Prop(S_content, JStr(<<"[">> \o componentName \o <<"]">>)),
                      Prop(S_style, JStr(S_caption))>>),
               <<>>) >>)

\* What a call of resolveNode comes to: it throws, returns one node, or
\* returns an array of nodes.
Thrown == [throws |-> TRUE, isArray |-> FALSE, nodes |-> <<>>]
One(node) == [throws |-> FALSE, isArray |-> FALSE, nodes |-> <<node>>]
Many(nodes) == [throws |-> FALSE, isArray |-> TRUE, nodes |-> nodes]

isChildrenSlot(children) == children.k = "string" /\ children.s = S_childrenSlot

isEachBlock(obj) == obj.k = "object" /\ hasKey(obj, S_each) /\ hasKey(obj, S_template)

\* Object.keys(node).find(k => isPascalCase(k)); <<>> when there is none
RECURSIVE findPascalKey(_)
findPascalKey(o) ==
    IF o = <<>> THEN <<>>
    ELSE IF isPascalCase(Head(o).key) THEN Head(o).key
    ELSE findPascalKey(Tail(o))

\* (compInstanceProps.variant as string)?.trim() || 'default'
\* The read throws on null and undefined props; ?. skips the call only for a
\* null or undefined variant, so a variant without a trim method throws.
variantNameOf(compInstanceProps) ==
    LET v == getProp(compInstanceProps, S_variant)
    IN  IF isNullish(compInstanceProps) THEN [throws |-> TRUE, name |-> <<>>]
        ELSE IF isNullish(v) THEN [throws |-> FALSE, name |-> S_default]
        ELSE IF v.k # "string" THEN [throws |-> TRUE, name |-> <<>>]
        ELSE IF trim(v.s) = <<>> THEN [throws |-> FALSE, name |-> S_default]
        ELSE [throws |-> FALSE, name |-> trim(v.s)]

\* 'Frame' in node throws a TypeError unless node is an object (or an array).
inThrows(node) == node.k # "object" /\ node.k # "array"

\* applyLink as it would be without the test that the first node is a box.
applyLink_AnyType(resolved, compInstanceProps) ==
    IF truthy(getProp(compInstanceProps, S_link)) /\ Len(resolved) > 0
    THEN [resolved EXCEPT ![1].props =
            JObj(setProp(spread(resolved[1].props), S_link, getProp(compInstanceProps, S_link)))]
    ELSE resolved

\* "If there's a link on the instance, apply it to the first resolved node"
applyLink(resolved, compInstanceProps) ==
    LET link == getProp(compInstanceProps, S_link)
    IN  IF truthy(link) /\ Len(resolved) > 0 /\ resolved[1].type = "box"
        THEN [resolved EXCEPT ![1].props = JObj(setProp(spread(resolved[1].props), S_link, link))]
        ELSE resolved

RECURSIVE resolveNode(_, _, _)
RECURSIVE resolveChildren(_, _, _)
RECURSIVE flatResolve(_, _, _)
RECURSIVE resolveVariant(_, _, _)
RECURSIVE resolveItems(_, _, _, _)

\* What flatMap makes of one callback result and of the results for the rest
\* of the array: it throws if a callback throws, and concatenates otherwise.
flatMapped(first, rest) ==
    IF first.throws \/ rest.throws THEN [throws |-> TRUE, nodes |-> <<>>]
    ELSE [throws |-> FALSE, nodes |-> first.nodes \o rest.nodes]

\* nodes.flatMap(child => resolveNode(child, components, instanceProps))
flatResolve(nodes, components, instanceProps) ==
    IF nodes = <<>> THEN [throws |-> FALSE, nodes |-> <<>>]
    ELSE flatMapped(resolveNode(Head(nodes), components, instanceProps),
                    flatResolve(Tail(nodes), components, instanceProps))

\* variantClone.flatMap(child => resolveNode(substituteProps(child, props), components, props))
resolveVariant(nodes, components, compInstanceProps) ==
    IF nodes = <<>> THEN [throws |-> FALSE, nodes |-> <<>>]
    ELSE flatMapped(resolveNode(substituteProps(Head(nodes), compInstanceProps),
                                components, compInstanceProps),
                    resolveVariant(Tail(nodes), components, compInstanceProps))

\* Normalize string items to objects with label property
normalizedItem(rawItem) ==
    IF rawItem.k = "string" THEN JObj(<<Prop(S_label, rawItem)>>) ELSE rawItem

\* substituted.flatMap(child => resolveNode(child, components, {})); the call
\* throws when the substituted template is not an array.
resolveTemplate(substituted, components) ==
    IF substituted.k # "array" THEN [throws |-> TRUE, nodes |-> <<>>]
    ELSE flatResolve(substituted.a, components, EmptyObj)

\* resolveItems as it would be if each item gave one node only, the first
\* node of the template.
resolveItems_FirstNodeOnly(items, template, components, instanceProps) ==
    IF items = <<>> THEN [throws |-> FALSE, nodes |-> <<>>]
    ELSE flatMapped(
            resolveTemplate(
                substituteProps(
                    IF template.k = "array" /\ Len(template.a) > 1
                    THEN JArr(<<template.a[1]>>) ELSE template,
                    JObj(setProp(spread(instanceProps), S_item, normalizedItem(Head(items))))),
                components),
            resolveItems(Tail(items), template, components, instanceProps))

\* items.flatMap(rawItem => ...) of an $each block
resolveItems(items, template, components, instanceProps) ==
    IF items = <<>> THEN [throws |-> FALSE, nodes |-> <<>>]
    ELSE flatMapped(
            resolveTemplate(
                substituteProps(template,
                    JObj(setProp(spread(instanceProps), S_item, normalizedItem(Head(items))))),
                components),
            resolveItems(Tail(items), template, components, instanceProps))

\* resolveChildren as it would be without the Array.isArray tests on the slot
\* children and on the $each items: flatMap is then called on what is there.
resolveChildren_NoArrayTest(children, components, instanceProps) ==
    IF isChildrenSlot(children)
    THEN resolveTemplate(getProp(instanceProps, S_children), components)
    ELSE IF isEachBlock(children)
    THEN IF getProp(instanceProps, toString(getProp(children, S_each))).k # "array"
         THEN [throws |-> TRUE, nodes |-> <<>>]
         ELSE resolveItems(getProp(instanceProps, toString(getProp(children, S_each))).a,
                           getProp(children, S_template), components, instanceProps)
    ELSE IF children.k # "array" THEN [throws |-> FALSE, nodes |-> <<>>]
    ELSE flatResolve(children.a, components, instanceProps)

resolveChildren(children, components, instanceProps) ==
    IF isChildrenSlot(children)
    THEN LET slotChildren == getProp(instanceProps, S_children)
         IN  IF slotChildren.k # "array" THEN [throws |-> FALSE, nodes |-> <<>>]
             ELSE flatResolve(slotChildren.a, components, EmptyObj)
    ELSE IF isEachBlock(children)
    THEN LET arrayName == getProp(children, S_each)
             template == getProp(children, S_template)
             items == getProp(instanceProps, toString(arrayName))
         IN  IF items.k # "array" THEN [throws |-> FALSE, nodes |-> <<>>]
             ELSE resolveItems(items.a, template, components, instanceProps)
    ELSE IF children.k # "array" THEN [throws |-> FALSE, nodes |-> <<>>]
    ELSE flatResolve(children.a, components, instanceProps)

\* return { type, props, children: resolvedChildren }
container(type, props, resolvedChildren) ==
    IF resolvedChildren.throws THEN Thrown
    ELSE One(ResolvedNode(type, props, resolvedChildren.nodes))

\* props.children || []
childrenOrEmpty(children) == IF truthy(children) THEN children ELSE JArr(<<>>)

\* A Frame or a Box: props.children || [] is resolved under the same scope.
resolveContainer(type, props, components, instanceProps) ==
    IF isNullish(props) THEN Thrown
    ELSE container(type, props,
            resolveChildren(childrenOrEmpty(getProp(props, S_children)), components, instanceProps))

\* The end of an expansion: the link is applied and the array returned.
expanded(resolved, compInstanceProps) ==
    IF resolved.throws THEN Thrown
    ELSE Many(applyLink(resolved.nodes, compInstanceProps))

\* JSON.parse(JSON.stringify(variant)) and the flatMap over it; the call
\* throws when the variant is not an array.
expandVariant(variant, components, compInstanceProps) ==
    IF variant.k # "array" THEN Thrown
    ELSE expanded(resolveVariant(jsonClone(variant).a, components, compInstanceProps),
                  compInstanceProps)

\* The variant lookup of a component the library holds.
lookupVariant(componentDef, variantName, components, compInstanceProps) ==
    IF isNullish(getProp(componentDef, S_variants)) THEN Thrown
    ELSE IF ~truthy(getProp(getProp(componentDef, S_variants), variantName)) THEN One(emptyBox)
    ELSE expandVariant(getProp(getProp(componentDef, S_variants), variantName),
                       components, compInstanceProps)

\* The component lookup, once the variant name is known.
lookupComponent(componentName, variantName, components, compInstanceProps) ==
    IF variantName.throws THEN Thrown
    ELSE IF ~truthy(getProp(components, componentName)) THEN One(notFoundBox(componentName))
    ELSE lookupVariant(getProp(components, componentName), variantName.name,
                       components, compInstanceProps)

\* "Must be a component instance"
resolveInstance(node, components, instanceProps) ==
    IF findPascalKey(spread(node)) = <<>> THEN One(emptyBox)
    ELSE lookupComponent(findPascalKey(spread(node)),
                         variantNameOf(getProp(node, findPascalKey(spread(node)))),
                         components,
                         getProp(node, findPascalKey(spread(node))))

resolveNode(node, components, instanceProps) ==
    IF inThrows(node) THEN Thrown
    ELSE IF hasKey(node, S_Frame)
    THEN resolveContainer("frame", getProp(node, S_Frame), components, instanceProps)
    ELSE IF hasKey(node, S_Box)
    THEN resolveContainer("box", getProp(node, S_Box), components, instanceProps)
    ELSE IF hasKey(node, S_Text) THEN One(ResolvedNode("text", getProp(node, S_Text), <<>>))
    ELSE IF hasKey(node, S_Icon) THEN One(ResolvedNode("icon", getProp(node, S_Icon), <<>>))
    ELSE IF hasKey(node, S_Cursor) THEN One(ResolvedNode("cursor", getProp(node, S_Cursor), <<>>))
    ELSE IF hasKey(node, S_Map)
    THEN IF isNullish(getProp(node, S_Map)) THEN Thrown
         ELSE One(ResolvedNode("map", getProp(node, S_Map), <<>>))
    ELSE IF hasKey(node, S_Chart)
    THEN IF isNullish(getProp(node, S_Chart)) THEN Thrown
         ELSE One(ResolvedNode("chart", getProp(node, S_Chart), <<>>))
    ELSE resolveInstance(node, components, instanceProps)

-----------------------------------------------------------------------------
(* resolveFrames on a wireframe of one frame                               *)

\* Largest number of entries in the frame's children.
MaxEntries == 2

S_Button == <<"B", "u", "t", "t", "o", "n">>
S_Card == <<"C", "a", "r", "d">>
S_List == <<"L", "i", "s", "t">>
S_Tag == <<"T", "a", "g">>
S_Toolbar == <<"T", "o", "o", "l", "b", "a", "r">>
S_Widget == <<"W", "i", "d", "g", "e", "t">>
S_primary == <<"p", "r", "i", "m", "a", "r", "y">>
S_group == <<"g", "r", "o", "u", "p">>
S_small == <<"s", "m", "a", "l", "l">>
S_ghost == <<"g", "h", "o", "s", "t">>
S_none == <<"n", "o", "n", "e">>
S_itemVariantSlot == <<"{", "{", "i", "t", "e", "m", ".", "v", "a", "r", "i", "a", "n", "t", "}", "}">>
S_toString == <<"t", "o", "S", "t", "r", "i", "n", "g">>
S_labelSlot == <<"{", "{", "l", "a", "b", "e", "l", "}", "}">>
S_itemLabelSlot == <<"{", "{", "i", "t", "e", "m", ".", "l", "a", "b", "e", "l", "}", "}">>
S_Save == <<"S", "a", "v", "e">>
S_main == <<"m", "a", "i", "n">>

Node(tag, props) == JObj(<<Prop(tag, props)>>)
TextSpec(content) == Node(S_Text, JObj(<<Prop(S_content, JStr(content))>>))
BoxSpec(outline, children) ==
    Node(S_Box, JObj(<<Prop(S_outline, JStr(outline)), Prop(S_children, children)>>))
ComponentDefinition(variants) == JObj(<<Prop(S_variants, JObj(variants))>>)
LinkTo(target) == JObj(<<Prop(S_target, JStr(target))>>)

\* The components file. Button has the variants default (one Text), primary
\* (one Box) and group (two Boxes); Card holds a $children slot and List an
\* $each block; Tag has no default variant, and its variant none is empty;
\* Toolbar expands to a Button
\* instance followed by a Text. Widget is not in it.
Library ==
    JObj(<<
      Prop(S_Button, ComponentDefinition(<<
          Prop(S_default, JArr(<<TextSpec(S_labelSlot)>>)),
          Prop(S_primary, JArr(<<BoxSpec(S_thin, JArr(<<TextSpec(S_labelSlot)>>))>>)),
          Prop(S_group, JArr(<<BoxSpec(S_thin, JArr(<<TextSpec(S_labelSlot)>>)),
                               Node(S_Box, JObj(<<Prop(S_outline, JStr(S_dashed))>>))>>))>>)),
      Prop(S_Card, ComponentDefinition(<<
          Prop(S_default, JArr(<<BoxSpec(S_thin, JStr(S_childrenSlot))>>))>>)),
      Prop(S_List, ComponentDefinition(<<
          Prop(S_default, JArr(<<Node(S_Box, JObj(<<
              Prop(S_children, JObj(<<
                  Prop(S_each, JStr(S_items)),
                  Prop(S_template, JArr(<<TextSpec(S_itemLabelSlot)>>))>>))>>))>>))>>)),
      Prop(S_Tag, ComponentDefinition(<<
          Prop(S_small, JArr(<<TextSpec(S_labelSlot)>>)),
          Prop(S_none, JArr(<<>>))>>)),
      Prop(S_Toolbar, ComponentDefinition(<<
          Prop(S_default, JArr(<<
              Node(S_Button, JObj(<<Prop(S_variant, JStr(S_primary)),
                                    Prop(S_label, JStr(S_labelSlot))>>)),
              TextSpec(S_labelSlot)>>))>>))
    >>)

\* The entries a children list is given: primitives, instances of library
\* components (with and without link, with known and unknown variants, with
\* and without the property a slot or an $each block reads), instances of a
\* component the library lacks (with each shape of props and of variant), and
\* entries of no known shape.
Entries ==
    { TextSpec(S_Save),
      Node(S_Box, JObj(<<Prop(S_outline, JStr(S_thin))>>)),
      Node(S_Button, JObj(<<Prop(S_label, JStr(S_Save))>>)),
      Node(S_Button, JObj(<<Prop(S_label, JStr(S_Save)), Prop(S_link, LinkTo(S_main))>>)),
      Node(S_Button, JObj(<<Prop(S_variant, JStr(<<" ">> \o S_primary)),
                            Prop(S_label, JStr(S_Save)),
                            Prop(S_link, LinkTo(S_main))>>)),
      Node(S_Button, JObj(<<Prop(S_variant, JStr(S_group)),
                            Prop(S_label, JStr(S_Save)),
                            Prop(S_link, LinkTo(S_main))>>)),
      Node(S_Button, JObj(<<Prop(S_variant, JStr(S_ghost)), Prop(S_label, JStr(S_Save))>>)),
      Node(S_Button, JObj(<<Prop(S_variant, JStr(S_toString)), Prop(S_label, JStr(S_Save))>>)),
      Node(S_Tag, JObj(<<Prop(S_label, JStr(S_Save))>>)),
      Node(S_Toolbar, JObj(<<Prop(S_label, JStr(S_Save)), Prop(S_link, LinkTo(S_main))>>)),
      Node(S_Card, JObj(<<Prop(S_children, JArr(<<TextSpec(S_Save)>>)),
                          Prop(S_link, LinkTo(S_main))>>)),
      Node(S_Card, EmptyObj),
      Node(S_Card, JObj(<<Prop(S_children, JStr(S_Save))>>)),
      Node(S_List, JObj(<<Prop(S_items, JArr(<<JStr(S_Save), JStr(S_main)>>))>>)),
      Node(S_List, JObj(<<Prop(S_items, JArr(<<JStr(S_Save)>>)),
                          Prop(S_link, LinkTo(S_main))>>)),
      Node(S_List, EmptyObj),
      Node(S_List, JObj(<<Prop(S_items, JStr(S_Save))>>)),
      Node(S_Widget, EmptyObj),
      Node(S_Widget, JNull),
      Node(S_Widget, JStr(S_Save)),
      Node(S_Widget, JObj(<<Prop(S_variant, JStr(S_primary))>>)),
      Node(S_Widget, JObj(<<Prop(S_variant, JNull)>>)),
      Node(S_Widget, JObj(<<Prop(S_variant, JNum(2))>>)),
      EmptyObj,
      Node(S_label, JStr(S_Save)),
      JNull,
      JStr(S_Save) }

FrameSpec(children) == Node(S_Frame, JObj(<<Prop(S_children, JArr(children))>>))

\* The entries that are instances of a component of the library.
Instances == {e \in Entries : e.k = "object" /\ hasOwn(Library, findPascalKey(e.o))}

\* A wireframe of one frame, or of two frames with the same children, all of
\* them instances of library components.
InitResolve ==
    /\ wireframe \in {[frames |-> <<FrameSpec(c)>>] : c \in SeqsUpTo(Entries, MaxEntries)}
                  \cup {[frames |-> <<FrameSpec(c), FrameSpec(c)>>] : c \in SeqsUpTo(Instances, MaxEntries)}
    /\ componentsFile = Library
    /\ resolvedFrames = <<>>
    /\ pc = "resolving"
    /\ rc = <<>>
    /\ out = <<>>
    /\ frame = NullNode
    /\ stack = <<>>
    /\ flags = <<>>

\* result[0] of an empty array
undefinedNode == ResolvedNode("undefined", JUndef, <<>>)

\* The frame wireframe.frames.map is at.
nextFrame == wireframe.frames[Len(resolvedFrames) + 1]

\* The components file as it would be left if the variant of an instance were
\* substituted where it stands, without the deep copy.
RECURSIVE substitutedInPlace(_, _)
substitutedInPlace(components, es) ==
    IF es = <<>> THEN components
    ELSE LET e == Head(es)
             name == findPascalKey(spread(e))
             props == getProp(e, name)
             def == getProp(components, name)
             variants == getProp(def, S_variants)
             asked == variantNameOf(props)
             variant == getProp(variants, asked.name)
             after ==
                 IF name # <<>> /\ hasOwn(components, name) /\ ~asked.throws
                    /\ hasOwn(variants, asked.name) /\ variant.k = "array"
                 THEN JObj(setProp(components.o, name,
                         JObj(setProp(def.o, S_variants,
                             JObj(setProp(variants.o, asked.name,
                                 substituteProps(variant, props)))))))
                 ELSE components
         IN  substitutedInPlace(after, Tail(es))

\* resolveFrame as it would be if the resolver substituted the variants in place.
resolveFrame_InPlace ==
    /\ pc = "resolving"
    /\ Len(resolvedFrames) < Len(wireframe.frames)
    /\ LET result == resolveNode(nextFrame, componentsFile, EmptyObj)
       IN  /\ ~result.throws
           /\ resolvedFrames' = Append(resolvedFrames,
                            IF result.nodes = <<>> THEN undefinedNode ELSE result.nodes[1])
    /\ componentsFile' =
          substitutedInPlace(componentsFile, getProp(getProp(nextFrame, S_Frame), S_children).a)
    /\ UNCHANGED <<wireframe, pc, rc, out, frame, stack, flags>>

\* One call of the map callback that returns. The resolver writes to nothing
\* that the components file holds: a variant is deep-copied before it is
\* substituted, substituteProps builds new arrays and mappings, and a link is
\* set by giving the resolved node a new props mapping.
resolveFrame ==
    /\ pc = "resolving"
    /\ Len(resolvedFrames) < Len(wireframe.frames)
    /\ LET result == resolveNode(nextFrame, componentsFile, EmptyObj)
       IN  /\ ~result.throws
           /\ resolvedFrames' = Append(resolvedFrames,
                            IF result.nodes = <<>> THEN undefinedNode ELSE result.nodes[1])
    /\ UNCHANGED <<wireframe, componentsFile, pc, rc, out, frame, stack, flags>>

\* One call of the map callback that throws: resolveFrames throws with it.
resolveFrameThrows ==
    /\ pc = "resolving"
    /\ Len(resolvedFrames) < Len(wireframe.frames)
    /\ resolveNode(nextFrame, componentsFile, EmptyObj).throws
    /\ pc' = "thrown"
    /\ UNCHANGED <<wireframe, componentsFile, resolvedFrames, rc, out, frame, stack, flags>>

\* map has run over all frames.
resolveFramesReturn ==
    /\ pc = "resolving"
    /\ Len(resolvedFrames) = Len(wireframe.frames)
    /\ pc' = "returned"
    /\ UNCHANGED <<wireframe, componentsFile, resolvedFrames, rc, out, frame, stack, flags>>

NextResolve == resolveFrame \/ resolveFrameThrows \/ resolveFramesReturn

SpecResolve == InitResolve /\ [][NextResolve]_vars

-----------------------------------------------------------------------------
(* Properties of the border-collapse analysis                              *)

\* The running renderChildren call, as the properties below read it.
nKids == Len(rc.children)
kid(k) == rc.children[k]
parentPad == getPadding(rc.parentPadding)
zeroPadding == parentPad.top = 0 /\ parentPad.left = 0 /\ parentPad.bottom = 0 /\ parentPad.right = 0
gapPositive == Len(rc.parentGap) = 1 /\ rc.parentGap[1] > 0
columnParent == rc.parentLayout # "row"
kidGrows(k) == kid(k).type = "box" /\ kid(k).grow = <<1>>
kidTouches(k) == ~rc.parentHasGrow \/ kidGrows(k)
\* What the sibling rule asks of child k and the child before it.
siblingsFuse(k, trail, lead) ==
    k > 1 /\ ~gapPositive /\ hasTrailingOutline(kid(k - 1), trail) /\ hasLeadingOutline(kid(k), lead)

\* The frame of the end-to-end scenario: column layout, zero gap, zero padding,
\* exactly two children, both boxes with outline thin.
twoThinBoxes ==
    /\ frame.layout # "row"
    /\ ~(Len(frame.gap) = 1 /\ frame.gap[1] > 0)
    /\ getPadding(frame.padding) = [top |-> 0, right |-> 0, bottom |-> 0, left |-> 0]
    /\ Len(frame.children) = 2
    /\ \A k \in 1..2 : frame.children[k].type = "box" /\ frame.children[k].outline = "thin"

\* C1 as stated: after rendering such a frame the first box has collapseBottom,
\* the second box has collapseTop, and the frame's wrapper box has no flag set.
C1_BothSidesMarked ==
    (pc = "done" /\ twoThinBoxes) =>
        /\ flagAt(<<1>>).collapseBottom
        /\ flagAt(<<2>>).collapseTop
        /\ flagAt(<<>>) = defaultContext

\* C1 amended: the shared edge is marked on the later box only. After rendering
\* such a frame the second box has collapseTop, the first box has collapseBottom
\* false, and the frame's wrapper box has no flag set.
C1_SharedEdgeOnLaterBox ==
    (pc = "done" /\ twoThinBoxes) =>
        /\ ~flagAt(<<1>>).collapseBottom
        /\ flagAt(<<2>>).collapseTop
        /\ flagAt(<<>>) = defaultContext

C1_Witness ==
    pc = "done" /\ twoThinBoxes /\ rendered(<<1>>) /\ rendered(<<2>>) /\ flagAt(<<2>>).collapseTop

\* C2 as stated: under a bordered column parent with zero padding no child but
\* the first has collapseTop, and no child but a touching last one has collapseBottom.
C2_MainAxisExclusive ==
    (columnParent /\ rc.parentHasOutline /\ zeroPadding) =>
        \A k \in 1..Len(out) :
            /\ out[k].collapseTop => k = 1
            /\ out[k].collapseBottom => (k = nKids /\ kidTouches(k))

\* C2 amended: under a bordered column parent with zero padding no child but a
\* touching last one has collapseBottom, and a child other than the first has
\* collapseTop only through the sibling rule: zero or absent gap, a reachable
\* bottom outline on the child before it and a reachable top outline of its own.
C2_MainAxisExclusiveButSiblings ==
    (columnParent /\ rc.parentHasOutline /\ zeroPadding) =>
        \A k \in 1..Len(out) :
            /\ out[k].collapseTop => (k = 1 \/ siblingsFuse(k, "bottom", "top"))
            /\ out[k].collapseBottom => (k = nKids /\ kidTouches(k))

C2_Witness ==
    /\ columnParent /\ rc.parentHasOutline /\ zeroPadding
    /\ Len(out) = 3
    /\ out[1].collapseTop /\ out[2].collapseTop /\ ~out[2].collapseBottom /\ out[3].collapseBottom

\* C3: under a bordered parent with zero padding every child, whatever its
\* index, has each cross-axis flag set whose edge reaches an outline: left and
\* right in a column, top and bottom in a row.
C3_CrossAxisForEveryChild ==
    (rc.parentHasOutline /\ zeroPadding) =>
        \A k \in 1..Len(out) :
            IF columnParent
            THEN /\ hasLeadingOutline(kid(k), "left") => out[k].collapseLeft
                 /\ hasTrailingOutline(kid(k), "right") => out[k].collapseRight
            ELSE /\ hasLeadingOutline(kid(k), "top") => out[k].collapseTop
                 /\ hasTrailingOutline(kid(k), "bottom") => out[k].collapseBottom

C3_Witness ==
    /\ rc.parentHasOutline /\ zeroPadding /\ ~columnParent
    /\ Len(out) = 3
    /\ hasLeadingOutline(kid(2), "top") /\ hasTrailingOutline(kid(2), "bottom")
    /\ out[2].collapseTop /\ out[2].collapseBottom

\* C4 as stated: a flag is false for every child whenever the parent's padding
\* on that edge is nonzero.
C4_PaddingBlocksEveryRule ==
    \A k \in 1..Len(out) :
        /\ parentPad.top # 0 => ~out[k].collapseTop
        /\ parentPad.left # 0 => ~out[k].collapseLeft
        /\ parentPad.bottom # 0 => ~out[k].collapseBottom
        /\ parentPad.right # 0 => ~out[k].collapseRight

\* C4 amended: whenever the parent's padding on an edge is nonzero, neither the
\* parent-child rule nor the inheritance rule sets that edge's flag; the flag
\* is true exactly where the sibling rule sets it (the leading main-axis edge
\* of a child that fuses with the child before it).
C4_PaddingBlocksParentAndInherited ==
    \A k \in 1..Len(out) :
        /\ parentPad.top # 0 =>
              (out[k].collapseTop <=> (columnParent /\ siblingsFuse(k, "bottom", "top")))
        /\ parentPad.left # 0 =>
              (out[k].collapseLeft <=> (~columnParent /\ siblingsFuse(k, "right", "left")))
        /\ parentPad.bottom # 0 => ~out[k].collapseBottom
        /\ parentPad.right # 0 => ~out[k].collapseRight

C4_Witness ==
    /\ ~rc.parentHasOutline /\ parentPad.top # 0 /\ parentPad.left = 0
    /\ rc.parentContext.collapseTop /\ rc.parentContext.collapseLeft
    /\ Len(out) = 1 /\ ~out[1].collapseTop /\ out[1].collapseLeft

\* C5: with a gap > 0 two adjacent bordered boxes never have their shared edge
\* marked: in a column the earlier one has collapseBottom false and the later
\* one collapseTop false, in a row collapseRight and collapseLeft.
C5_GapSuppressesSiblingCollapse ==
    gapPositive =>
        \A k \in 2..Len(out) :
            (hasOutline(kid(k - 1)) /\ hasOutline(kid(k))) =>
                IF columnParent
                THEN ~out[k - 1].collapseBottom /\ ~out[k].collapseTop
                ELSE ~out[k - 1].collapseRight /\ ~out[k].collapseLeft

C5_Witness ==
    /\ gapPositive /\ Len(out) = 2 /\ hasOutline(kid(1)) /\ hasOutline(kid(2))
    /\ ~out[2].collapseTop /\ out[2].collapseLeft

\* The last child's trailing main-axis flag.
trailingFlag(c) == IF columnParent THEN c.collapseBottom ELSE c.collapseRight
trailingPad == IF columnParent THEN parentPad.bottom ELSE parentPad.right
trailingEdge == IF columnParent THEN "bottom" ELSE "right"

\* C6: the last child's trailing main-axis flag is set only if the parent does
\* not grow or the child has grow = 1, and it is set whenever that holds, the
\* padding on the edge is zero and the edge reaches an outline under a bordered
\* parent, or is inherited under an unbordered one.
C6_TouchRule ==
    Len(out) = nKids =>
        /\ trailingFlag(out[nKids]) => (~rc.parentHasGrow \/ kidGrows(nKids))
        /\ ( /\ ~rc.parentHasGrow \/ kidGrows(nKids)
             /\ trailingPad = 0
             /\ IF rc.parentHasOutline
                THEN hasTrailingOutline(kid(nKids), trailingEdge)
                ELSE trailingFlag(rc.parentContext) )
           => trailingFlag(out[nKids])

C6_Witness ==
    /\ Len(out) = nKids /\ nKids = 2
    /\ rc.parentHasGrow /\ kidGrows(nKids) /\ ~rc.parentHasOutline
    /\ trailingFlag(out[nKids])

\* C7 as stated: under an unbordered parent only the first child receives the
\* inherited collapseTop and collapseLeft, and only a touching last child the
\* inherited collapseBottom and collapseRight.
C7_InheritedOnlyFirstAndLast ==
    ~rc.parentHasOutline =>
        \A k \in 1..Len(out) :
            /\ k # 1 => /\ out[k].collapseTop => siblingsFuse(k, "bottom", "top")
                        /\ out[k].collapseLeft => siblingsFuse(k, "right", "left")
            /\ ~(k = nKids /\ kidTouches(k)) => ~out[k].collapseBottom /\ ~out[k].collapseRight

\* C7 amended: under an unbordered parent the inherited leading main-axis flag
\* (collapseTop in a column, collapseLeft in a row) goes to the first child
\* only, the inherited trailing main-axis flag (collapseBottom in a column,
\* collapseRight in a row) to a touching last child only, and each inherited
\* cross-axis flag to every child, when the padding on its edge is zero.
C7_InheritedMainAxisSelective ==
    ~rc.parentHasOutline =>
        \A k \in 1..Len(out) :
            IF columnParent
            THEN /\ out[k].collapseTop <=>
                        \/ siblingsFuse(k, "bottom", "top")
                        \/ k = 1 /\ parentPad.top = 0 /\ rc.parentContext.collapseTop
                 /\ out[k].collapseBottom <=>
                        (k = nKids /\ kidTouches(k) /\ parentPad.bottom = 0
                           /\ rc.parentContext.collapseBottom)
                 /\ out[k].collapseLeft <=> (parentPad.left = 0 /\ rc.parentContext.collapseLeft)
                 /\ out[k].collapseRight <=> (parentPad.right = 0 /\ rc.parentContext.collapseRight)
            ELSE /\ out[k].collapseLeft <=>
                        \/ siblingsFuse(k, "right", "left")
                        \/ k = 1 /\ parentPad.left = 0 /\ rc.parentContext.collapseLeft
                 /\ out[k].collapseRight <=>
                        (k = nKids /\ kidTouches(k) /\ parentPad.right = 0
                           /\ rc.parentContext.collapseRight)
                 /\ out[k].collapseTop <=> (parentPad.top = 0 /\ rc.parentContext.collapseTop)
                 /\ out[k].collapseBottom <=> (parentPad.bottom = 0 /\ rc.parentContext.collapseBottom)

C7_Witness ==
    /\ ~rc.parentHasOutline /\ columnParent /\ Len(out) = 3
    /\ rc.parentContext = RenderContext(TRUE, TRUE, TRUE, TRUE)
    /\ out[2] = RenderContext(FALSE, TRUE, FALSE, TRUE)

\* C8: with a zero or absent gap, a child other than the first has its leading
\* main-axis flag (collapseTop in a column, collapseLeft in a row) exactly when
\* the child before it has a reachable trailing outline and the child itself a
\* reachable leading outline.
C8_SiblingRule ==
    ~gapPositive =>
        \A k \in 2..Len(out) :
            IF columnParent
            THEN out[k].collapseTop <=>
                    (hasTrailingOutline(kid(k - 1), "bottom") /\ hasLeadingOutline(kid(k), "top"))
            ELSE out[k].collapseLeft <=>
                    (hasTrailingOutline(kid(k - 1), "right") /\ hasLeadingOutline(kid(k), "left"))

C8_Witness ==
    /\ ~gapPositive /\ ~columnParent /\ Len(out) = 2
    /\ ~hasOutline(kid(1)) /\ hasTrailingOutline(kid(1), "right")
    /\ ~hasOutline(kid(2)) /\ hasLeadingOutline(kid(2), "left")
    /\ out[2].collapseLeft

-----------------------------------------------------------------------------
(* Properties of the resolver                                              *)

\* The children entries of the wireframe's frame, and what they resolved to.
entries == getProp(getProp(wireframe.frames[1], S_Frame), S_children).a
resolvedChildren == resolvedFrames[1].children

PrimitiveTags == {S_Frame, S_Box, S_Text, S_Icon, S_Cursor, S_Map, S_Chart}
hasPrimitiveTag(e) == e.k = "object" /\ \E t \in PrimitiveTags : hasKey(e, t)

\* An instance of a component the components file does not hold.
unknownInstance(e) ==
    /\ e.k = "object"
    /\ ~hasPrimitiveTag(e)
    /\ findPascalKey(e.o) # <<>>
    /\ ~hasKey(componentsFile, findPascalKey(e.o))

\* An entry with no primitive tag and no capitalized key.
shapeless(e) ==
    \/ e.k # "object"
    \/ ~hasPrimitiveTag(e) /\ findPascalKey(e.o) = <<>>

\* C9: when every children entry is an instance of an unknown component,
\* resolveFrames does not throw, and each entry resolves to exactly one Box with
\* a dashed outline and one Text child "[Name]".
C9_UnknownComponentNeverThrows ==
    (\A j \in 1..Len(entries) : unknownInstance(entries[j])) =>
        /\ pc # "thrown"
        /\ pc = "returned" =>
              /\ Len(resolvedChildren) = Len(entries)
              /\ \A j \in 1..Len(entries) :
                    resolvedChildren[j] = notFoundBox(findPascalKey(entries[j].o))

\* C10: when every children entry is either of no known shape or a Text node,
\* resolveFrames does not throw, and each shapeless entry resolves to one empty
\* Box at its position, the Text nodes beside it being resolved as well.
C10_ShapelessEntryNeverThrows ==
    (\A j \in 1..Len(entries) : shapeless(entries[j]) \/ hasKey(entries[j], S_Text)) =>
        /\ pc # "thrown"
        /\ pc = "returned" =>
              /\ Len(resolvedChildren) = Len(entries)
              /\ \A j \in 1..Len(entries) :
                    IF shapeless(entries[j])
                    THEN resolvedChildren[j] = emptyBox
                    ELSE resolvedChildren[j].type = "text"

\* An instance of a library component, with a mapping for props and a variant
\* that is absent or a string.
libraryInstance(e) ==
    /\ e.k = "object"
    /\ ~hasPrimitiveTag(e)
    /\ findPascalKey(e.o) # <<>>
    /\ hasOwn(componentsFile, findPascalKey(e.o))
    /\ getProp(e, findPascalKey(e.o)).k = "object"
    /\ getProp(getProp(e, findPascalKey(e.o)), S_variant).k \in {"undefined", "string"}

propsOf(e) == getProp(e, findPascalKey(e.o))
variantsOf(e) == getProp(getProp(componentsFile, findPascalKey(e.o)), S_variants)

\* The variant name the instance asks for: trimmed, 'default' when absent or blank.
askedVariant(e) ==
    LET v == getProp(propsOf(e), S_variant)
    IN  IF v.k = "string" /\ trim(v.s) # <<>> THEN trim(v.s) ELSE S_default

unknownVariant(e) == libraryInstance(e) /\ ~hasOwn(variantsOf(e), askedVariant(e))

\* C11: when every children entry is an instance of a library component whose
\* variant name (trimmed, 'default' when absent or blank) is not a key of the
\* component's variants, resolveFrames does not throw and each entry resolves
\* to exactly one empty Box.
C11_UnknownVariantEmptyBox ==
    (\A j \in 1..Len(entries) : unknownVariant(entries[j])) =>
        /\ pc # "thrown"
        /\ pc = "returned" =>
              /\ Len(resolvedChildren) = Len(entries)
              /\ \A j \in 1..Len(entries) : resolvedChildren[j] = emptyBox

-----------------------------------------------------------------------------
(* resolveChildren on drawn arguments                                      *)

\* Largest number of items in the array an $each block iterates.
MaxItems == 2

EachBlock(arrayName, template) ==
    JObj(<<Prop(S_each, JStr(arrayName)), Prop(S_template, template)>>)

\* The items of an array: a string, a mapping and null.
Items ==
    { JStr(S_Save),
      JObj(<<Prop(S_label, JStr(S_main)), Prop(S_variant, JStr(S_group))>>),
      JNull }

\* $template values: no node, one primitive node, two primitive nodes, an
\* instance that expands to one node, to two nodes, to none, to a number of
\* nodes that depends on the item, and a template that is not an array.
Templates ==
    { JArr(<<>>),
      JArr(<<TextSpec(S_itemLabelSlot)>>),
      JArr(<<TextSpec(S_itemLabelSlot), Node(S_Box, JObj(<<Prop(S_outline, JStr(S_thin))>>))>>),
      JArr(<<Node(S_Button, JObj(<<Prop(S_label, JStr(S_itemLabelSlot))>>))>>),
      JArr(<<Node(S_Button, JObj(<<Prop(S_variant, JStr(S_group)),
                                   Prop(S_label, JStr(S_itemLabelSlot))>>))>>),
      JArr(<<Node(S_Tag, JObj(<<Prop(S_variant, JStr(S_none))>>))>>),
      JArr(<<Node(S_Button, JObj(<<Prop(S_variant, JStr(S_itemVariantSlot)),
                                   Prop(S_label, JStr(S_itemLabelSlot))>>)),
             TextSpec(S_itemLabelSlot)>>),
      JStr(S_itemLabelSlot) }

\* The children argument: an $each block, the $children slot, an array of
\* nodes, or nothing of the kind.
ChildrenValues ==
    {EachBlock(S_items, t) : t \in Templates}
        \cup { JStr(S_childrenSlot),
               JArr(<<TextSpec(S_labelSlot), Node(S_Button, JObj(<<Prop(S_label, JStr(S_Save))>>))>>),
               JStr(S_Save) }

\* The scope: props with the array items (of each length), without it, with
\* something else under that name, and with or without children.
Scopes ==
    {JObj(<<Prop(S_label, JStr(S_Save)), Prop(S_items, JArr(a))>>) : a \in SeqsUpTo(Items, MaxItems)}
        \cup { EmptyObj,
               JObj(<<Prop(S_items, JStr(S_Save))>>),
               JObj(<<Prop(S_items, JObj(<<Prop(S_label, JStr(S_Save))>>))>>),
               JObj(<<Prop(S_children, JArr(<<TextSpec(S_Save), TextSpec(S_main)>>))>>),
               JObj(<<Prop(S_children, JStr(S_Save))>>) }

InitChildren ==
    /\ rc \in {[children |-> c, instanceProps |-> p] : c \in ChildrenValues, p \in Scopes}
    /\ componentsFile = Library
    /\ out = <<>>
    /\ pc = "calling"
    /\ wireframe = <<>>
    /\ resolvedFrames = <<>>
    /\ frame = NullNode
    /\ stack = <<>>
    /\ flags = <<>>

\* The call returns its array of resolved nodes.
resolveChildrenReturn ==
    /\ pc = "calling"
    /\ LET result == resolveChildren(rc.children, componentsFile, rc.instanceProps)
       IN  /\ ~result.throws
           /\ out' = result.nodes
    /\ pc' = "returned"
    /\ UNCHANGED <<rc, componentsFile, wireframe, resolvedFrames, frame, stack, flags>>

\* The call throws.
resolveChildrenThrows ==
    /\ pc = "calling"
    /\ resolveChildren(rc.children, componentsFile, rc.instanceProps).throws
    /\ pc' = "thrown"
    /\ UNCHANGED <<rc, componentsFile, out, wireframe, resolvedFrames, frame, stack, flags>>

NextChildren == resolveChildrenReturn \/ resolveChildrenThrows

SpecChildren == InitChildren /\ [][NextChildren]_vars

-----------------------------------------------------------------------------
(* Properties of resolveChildren                                           *)

\* The running call's $each block, where it has one.
eachItems == getProp(rc.instanceProps, toString(getProp(rc.children, S_each)))
eachTemplate == getProp(rc.children, S_template)
eachOverArray ==
    pc = "returned" /\ isEachBlock(rc.children) /\ eachItems.k = "array" /\ eachTemplate.k = "array"

\* The expansion of the template for the n-th item: every node of the
\* template, with item bound to the (normalized) n-th item, resolved in order.
expansion(n) ==
    flatResolve(
        substituteProps(eachTemplate,
            JObj(setProp(spread(rc.instanceProps), S_item, normalizedItem(eachItems.a[n])))).a,
        componentsFile, EmptyObj).nodes

RECURSIVE expansionsUpTo(_)
expansionsUpTo(n) == IF n = 0 THEN <<>> ELSE expansionsUpTo(n - 1) \o expansion(n)

templateIsPrimitive ==
    \A j \in 1..Len(eachTemplate.a) : hasKey(eachTemplate.a[j], S_Text) \/ hasKey(eachTemplate.a[j], S_Box)

\* C12 as stated: an $each block over an array of N items resolves to exactly
\* N children, whatever the template.
C12_EachYieldsNChildren ==
    eachOverArray => Len(out) = Len(eachItems.a)

\* C12 amended: an $each block over an empty array resolves to no child, and
\* over N items to the concatenation, in item order, of N expansions of the
\* template; a template of k primitive nodes gives N * k children, the j-th
\* node of the n-th expansion being of the type of the template's j-th node.
C12_EachYieldsNExpansions ==
    eachOverArray =>
        /\ Len(eachItems.a) = 0 => out = <<>>
        /\ out = expansionsUpTo(Len(eachItems.a))
        /\ templateIsPrimitive =>
              /\ Len(out) = Len(eachItems.a) * Len(eachTemplate.a)
              /\ \A n \in 1..Len(eachItems.a) : \A j \in 1..Len(eachTemplate.a) :
                    out[(n - 1) * Len(eachTemplate.a) + j].type =
                        (IF hasKey(eachTemplate.a[j], S_Text) THEN "text" ELSE "box")

C12_Witness ==
    /\ eachOverArray /\ Len(eachItems.a) = 2 /\ Len(eachTemplate.a) = 2 /\ templateIsPrimitive
    /\ Len(out) = 4 /\ out[3].type = "text" /\ out[4].type = "box"
    /\ getProp(out[1].props, S_content) = JStr(S_Save)

-----------------------------------------------------------------------------
(* Properties of resolveFrames, continued                                  *)

\* An entry whose slot or $each block finds no array to draw from: a Card
\* without children or with children that are no array, a List without items
\* or with items that are no array.
missingSource(e) ==
    /\ libraryInstance(e)
    /\ \/ findPascalKey(e.o) = S_Card /\ getProp(propsOf(e), S_children).k # "array"
       \/ findPascalKey(e.o) = S_List /\ getProp(propsOf(e), S_items).k # "array"

\* What an entry resolves to when it stands alone.
alone(e) == resolveNode(e, componentsFile, EmptyObj)

RECURSIVE resolvedAlone(_)
resolvedAlone(es) == IF es = <<>> THEN <<>> ELSE alone(Head(es)).nodes \o resolvedAlone(Tail(es))

\* The position of entry j's first resolved node among the frame's children.
offset(j) == Len(resolvedAlone(SubSeq(entries, 1, j - 1)))

\* C13: when an entry's $each block or $children slot has no array to draw
\* from and every other entry resolves on its own, resolveFrames does not
\* throw, the entry resolves to its parent Box with no children, and the
\* entries beside it resolve as they do alone.
C13_MissingSourceEmptyList ==
    LET noSource == {j \in 1..Len(entries) : missingSource(entries[j])}
    IN  (pc # "resolving" /\ noSource # {}
            /\ \A j \in (1..Len(entries)) \ noSource : ~alone(entries[j]).throws) =>
            /\ pc # "thrown"
            /\ pc = "returned" =>
                  /\ \A j \in noSource :
                        /\ resolvedChildren[offset(j) + 1].type = "box"
                        /\ resolvedChildren[offset(j) + 1].children = <<>>
                        /\ offset(j + 1) = offset(j) + 1
                  /\ \A j \in (1..Len(entries)) \ noSource : \A n \in 1..Len(alone(entries[j]).nodes) :
                        resolvedChildren[offset(j) + n] = alone(entries[j]).nodes[n]
                  /\ Len(resolvedChildren) = offset(Len(entries) + 1)

C13_Witness ==
    /\ pc = "returned" /\ Len(entries) = 2
    /\ findPascalKey(entries[1].o) = S_List /\ missingSource(entries[1])
    /\ getProp(propsOf(entries[1]), S_items).k = "string"
    /\ hasKey(entries[2], S_Text)
    /\ Len(resolvedChildren) = 2
    /\ resolvedChildren[1].children = <<>> /\ resolvedChildren[2].type = "text"

-----------------------------------------------------------------------------
(* substituteProps on drawn arguments, applied once and then once more     *)

\* Largest number of pieces a drawn string is made of.
MaxPieces == 3

S_a == <<"a">>
S_b == <<"b">>
S_f == <<"f">>

\* The pieces of a string: placeholders (plain and with a field), an opening
\* and a closing pair of braces, a name and other text.
Pieces ==
    { <<"{", "{", "a", "}", "}">>,
      <<"{", "{", "b", ".", "f", "}", "}">>,
      <<"{", "{", "t", "o", "S", "t", "r", "i", "n", "g", "}", "}">>,
      <<"{", "{">>,
      <<"}", "}">>,
      <<"a">>,
      <<"x", " ">> }

RECURSIVE joined(_)
joined(pieces) == IF pieces = <<>> THEN <<>> ELSE Head(pieces) \o joined(Tail(pieces))

Strings == {joined(p) : p \in SeqsUpTo(Pieces, MaxPieces)}

\* The value given to substituteProps: a string, alone, in an array beside a
\* scalar, or in a mapping inside an array.
Shapes(s) ==
    { JStr(s),
      JArr(<<JStr(s), JNum(2)>>),
      JArr(<<JObj(<<Prop(S_content, JStr(s)), Prop(S_a, JNull)>>)>>) }

\* The scopes: none of their values holds placeholder text. No scope has a
\* property toString of its own.
SubstScopes ==
    { EmptyObj,
      JObj(<<Prop(S_a, JStr(S_b))>>),
      JObj(<<Prop(S_a, JStr(S_b)), Prop(S_b, JStr(S_Save))>>),
      JObj(<<Prop(S_a, JNum(2)), Prop(S_b, JObj(<<Prop(S_f, JStr(S_Save))>>))>>),
      JObj(<<Prop(S_a, JBool(TRUE)), Prop(S_b, JNum(2))>>),
      JObj(<<Prop(S_b, JObj(<<Prop(S_a, JStr(S_Save))>>))>>) }

InitSubst ==
    /\ rc \in {[obj |-> v, props |-> p] : v \in UNION {Shapes(s) : s \in Strings}, p \in SubstScopes}
    /\ out = <<>>
    /\ pc = "calling"
    /\ componentsFile = <<>>
    /\ wireframe = <<>>
    /\ resolvedFrames = <<>>
    /\ frame = NullNode
    /\ stack = <<>>
    /\ flags = <<>>

\* substituteProps(obj, props)
substituteOnce ==
    /\ pc = "calling"
    /\ out' = <<substituteProps(rc.obj, rc.props)>>
    /\ pc' = "once"
    /\ UNCHANGED <<rc, componentsFile, wireframe, resolvedFrames, frame, stack, flags>>

\* substituteProps(result, props), on the result of the first call
substituteAgain ==
    /\ pc = "once"
    /\ out' = Append(out, substituteProps(out[1], rc.props))
    /\ pc' = "twice"
    /\ UNCHANGED <<rc, componentsFile, wireframe, resolvedFrames, frame, stack, flags>>

NextSubst == substituteOnce \/ substituteAgain

SpecSubst == InitSubst /\ [][NextSubst]_vars

-----------------------------------------------------------------------------
(* Properties of substituteProps                                           *)

\* C14: substituting a second time with the same scope changes nothing.
C14_SubstituteIdempotent ==
    pc = "twice" => out[2] = out[1]

\* The string inside the drawn value.
drawnString ==
    CASE rc.obj.k = "string" -> rc.obj.s
      [] rc.obj.a[1].k = "string" -> rc.obj.a[1].s
      [] OTHER -> getProp(rc.obj.a[1], S_content).s

S_bfSlot == <<"{", "{", "b", ".", "f", "}", "}">>

\* C15: a placeholder {{b.f}} whose scope value for b is a string, a number or
\* a boolean is replaced by the empty string.
C15_FieldOfNonMappingIsEmpty ==
    (pc = "once" /\ rc.obj = JStr(S_bfSlot)
        /\ getProp(rc.props, S_b).k \in {"string", "number", "boolean"}) =>
            out[1] = JStr(<<>>)

\* The names of the placeholders of a string.
placeholderNames(s) == {matchAt(s, j).name : j \in {i \in 1..Len(s) : matchAt(s, i).ok}}

\* C16: when no placeholder's name is a property of the scope, substituteProps
\* returns a value equal to its input: every placeholder is left verbatim, the
\* text around them is unchanged, and the keys and array lengths are the same.
C16_AbsentNamesLeftVerbatim ==
    (pc = "once" /\ \A name \in placeholderNames(drawnString) : ~hasOwn(rc.props, name)) =>
        out[1] = rc.obj

-----------------------------------------------------------------------------
(* Properties of resolveFrames: the component library, links, end to end   *)

hasLink(e) == libraryInstance(e) /\ getProp(propsOf(e), S_link).k = "object"

withoutLink(e) ==
    Node(findPascalKey(e.o),
         JObj(SelectSeq(propsOf(e).o, LAMBDA p : p.key # S_link)))

\* C18: an instance with a link resolves to the nodes it resolves to without
\* the link, except that the first node, if it is a box, has the link among
\* its props; a first node that is no box, and every later node, is the same
\* as without the link.
C18_LinkOnFirstBoxOnly ==
    pc = "returned" =>
        \A j \in 1..Len(entries) :
            hasLink(entries[j]) =>
                LET link == getProp(propsOf(entries[j]), S_link)
                    plain == alone(withoutLink(entries[j])).nodes
                    at(n) == resolvedChildren[offset(j) + n]
                IN  /\ offset(j + 1) = offset(j) + Len(plain)
                    /\ \A n \in 2..Len(plain) : at(n) = plain[n]
                    /\ Len(plain) > 0 =>
                          IF plain[1].type = "box"
                          THEN /\ getProp(at(1).props, S_link) = link
                               /\ at(1) = [plain[1] EXCEPT
                                              !.props = JObj(setProp(plain[1].props.o, S_link, link))]
                          ELSE at(1) = plain[1] /\ ~hasOwn(at(1).props, S_link)

C18_Witness ==
    /\ pc = "returned" /\ Len(entries) = 2
    /\ hasLink(entries[1]) /\ hasLink(entries[2])
    /\ Len(resolvedChildren) = 3
    /\ resolvedChildren[1].type = "text" /\ ~hasOwn(resolvedChildren[1].props, S_link)
    /\ resolvedChildren[2].type = "box" /\ hasOwn(resolvedChildren[2].props, S_link)
    /\ resolvedChildren[3].type = "box" /\ ~hasOwn(resolvedChildren[3].props, S_link)

\* The instance of the end-to-end scenario: Button { label: "Save" }.
saveButton == Node(S_Button, JObj(<<Prop(S_label, JStr(S_Save))>>))

\* The library's Button is the scenario's: its variant default is a single
\* Text node with content "{{label}}".
buttonOfScenario ==
    getProp(getProp(getProp(componentsFile, S_Button), S_variants), S_default)
        = JArr(<<TextSpec(S_labelSlot)>>)

\* C19: the instance Button { label: "Save" } resolves to exactly one node, a
\* Text node whose content is "Save".
C19_ButtonResolvesToSaveText ==
    (pc = "returned" /\ buttonOfScenario) =>
        \A j \in 1..Len(entries) :
            entries[j] = saveButton =>
                /\ offset(j + 1) = offset(j) + 1
                /\ resolvedChildren[offset(j) + 1] =
                      ResolvedNode("text", JObj(<<Prop(S_content, JStr(S_Save))>>), <<>>)

C19_Witness ==
    /\ pc = "returned" /\ buttonOfScenario
    /\ entries = <<saveButton>>
    /\ Len(resolvedChildren) = 1
    /\ resolvedChildren[1].type = "text"
    /\ getProp(resolvedChildren[1].props, S_content) = JStr(S_Save)

-----------------------------------------------------------------------------
(* Numbers of the generators                                               *)
(* A number is an exact fraction, a finite number whose value is not       *)
(* followed (what Math.random, Math.sin, Math.sqrt ... return for finite   *)
(* arguments), NaN, or an infinity with its sign.                          *)

RECURSIVE gcd(_, _)
gcd(a, b) == IF b = 0 THEN a ELSE gcd(b, a % b)

abs(n) == IF n < 0 THEN -n ELSE n

sgn(n) == IF n < 0 THEN -1 ELSE IF n > 0 THEN 1 ELSE 0

\* The fraction n / d, d # 0, in lowest terms with a positive denominator.
Frac(n, d) == LET g == gcd(abs(n), abs(d)) IN [kind |-> "fraction", num |-> (sgn(d) * n) \div g, den |-> abs(d) \div g]

Whole(n) == Frac(n, 1)

Real == [kind |-> "real"]

NaN == [kind |-> "NaN"]

Infinity(sign) == [kind |-> "Infinity", sign |-> sign]

isFinite(x) == x.kind \in {"fraction", "real"}

\* a / b for fractions: x / 0 is an infinity, and 0 / 0 is NaN.
divide(a, b) ==
    IF b.num = 0
    THEN IF a.num = 0 THEN NaN ELSE Infinity(sgn(a.num))
    ELSE Frac(a.num * b.den, a.den * b.num)

\* a * b: NaN is contagious and 0 * Infinity is NaN.
times(a, b) ==
    CASE a.kind = "NaN" \/ b.kind = "NaN" -> NaN
      [] a.kind = "fraction" /\ b.kind = "fraction" -> Frac(a.num * b.num, a.den * b.den)
      [] a.kind = "fraction" /\ b.kind = "Infinity" -> IF a.num = 0 THEN NaN ELSE Infinity(sgn(a.num) * b.sign)
      [] a.kind = "Infinity" /\ b.kind = "fraction" -> IF b.num = 0 THEN NaN ELSE Infinity(sgn(b.num) * a.sign)
      [] a.kind = "Infinity" /\ b.kind = "Infinity" -> Infinity(a.sign * b.sign)
      [] isFinite(a) /\ isFinite(b) -> Real

\* a + b: NaN is contagious and Infinity - Infinity is NaN.
plus(a, b) ==
    CASE a.kind = "NaN" \/ b.kind = "NaN" -> NaN
      [] a.kind = "fraction" /\ b.kind = "fraction" -> Frac(a.num * b.den + b.num * a.den, a.den * b.den)
      [] a.kind = "Infinity" /\ b.kind = "Infinity" -> IF a.sign = b.sign THEN a ELSE NaN
      [] a.kind = "Infinity" -> a
      [] b.kind = "Infinity" -> b
      [] OTHER -> Real

\* Math.sin, Math.cos, Math.tan, Math.sqrt(Math.abs(...)): finite for a
\* finite argument; the circular functions give NaN at an infinity.
circular(x) == IF isFinite(x) THEN Real ELSE NaN

\* Math.acos: NaN outside [-1, 1]
acos(x) == IF x.kind = "fraction" /\ abs(x.num) <= x.den THEN Real ELSE NaN

-----------------------------------------------------------------------------
(* generateScatterPoints                                                   *)
(* A point is recorded by the loop indices it was pushed at, by whether    *)
(* the noise loop has moved it, and by its three coordinates.              *)

\* Largest sample count drawn.
MaxSamples == 13

Scatter3DFn == {"random", "sphere", "helix", "cube", "cluster", "plane"}

\* const edges = [...]: the cube has twelve edges
edgeCount == 12

\* pointsPerEdge as it would be if the division were rounded down.
pointsPerEdge_Floor(samples) == samples \div edgeCount

\* Math.ceil(samples / 12)
pointsPerEdge(samples) == (samples + edgeCount - 1) \div edgeCount

\* Math.ceil(Math.sqrt(samples))
gridSize(samples) == CHOOSE g \in 0..samples : g * g >= samples /\ \A h \in 0..(g - 1) : h * h < samples

\* const edges = [...]: the start and the end corner of every edge
edges ==
    << <<<<-1, -1, -1>>, <<1, -1, -1>>>>, <<<<1, -1, -1>>, <<1, -1, 1>>>>,
       <<<<1, -1, 1>>, <<-1, -1, 1>>>>, <<<<-1, -1, 1>>, <<-1, -1, -1>>>>,
       <<<<-1, 1, -1>>, <<1, 1, -1>>>>, <<<<1, 1, -1>>, <<1, 1, 1>>>>,
       <<<<1, 1, 1>>, <<-1, 1, 1>>>>, <<<<-1, 1, 1>>, <<-1, 1, -1>>>>,
       <<<<-1, -1, -1>>, <<-1, 1, -1>>>>, <<<<1, -1, -1>>, <<1, 1, -1>>>>,
       <<<<1, -1, 1>>, <<1, 1, 1>>>>, <<<<-1, -1, 1>>, <<-1, 1, 1>>>> >>

\* const turns = 3
turns == 3

Scatter3DPoint(x, y, z) == [x |-> x, y |-> y, z |-> z]

\* x: Math.random() * 2 - 1, and the same for y and z
randomPoint == Scatter3DPoint(Real, Real, Real)

\* phi = Math.acos(1 - 2 * (i + 0.5) / samples); theta is finite
spherePoint(samples, i) ==
    LET phi == acos(plus(Whole(1), times(Whole(-2), divide(Frac(2 * i + 1, 2), Whole(samples)))))
        theta == Real
    IN Scatter3DPoint(times(circular(phi), circular(theta)), circular(phi), times(circular(phi), circular(theta)))

\* t = i / (samples - 1); angle = t * turns * 2 * Math.PI
helixPoint(samples, i) ==
    LET t == divide(Whole(i), Whole(samples - 1))
        angle == times(times(t, Whole(turns * 2)), Real)
    IN Scatter3DPoint(times(circular(angle), Frac(4, 5)), plus(times(t, Whole(2)), Whole(-1)), times(circular(angle), Frac(4, 5)))

\* t = i / pointsPerEdge; start[k] + (end[k] - start[k]) * t on the e-th edge
cubePoint(samples, e, i) ==
    LET t == divide(Whole(i), Whole(pointsPerEdge(samples)))
        start == edges[e][1]
        end == edges[e][2]
        along(k) == plus(Whole(start[k]), times(Whole(end[k] - start[k]), t))
    IN Scatter3DPoint(along(1), along(2), along(3))

\* cx + spread * Math.sqrt(-2 * Math.log(u1 || 0.001)) * Math.cos(...)
clusterPoint == Scatter3DPoint(Real, Real, Real)

\* x = (i / (gridSize - 1)) * 2 - 1, y likewise from j, z = sin * cos * 0.5
planePoint(samples, i, j) ==
    LET across(k) == plus(times(divide(Whole(k), Whole(gridSize(samples) - 1)), Whole(2)), Whole(-1))
        x == across(i)
        y == across(j)
    IN Scatter3DPoint(x, y, times(times(circular(times(x, Real)), circular(times(y, Real))), Frac(1, 2)))

\* The point the switch pushes at loop indices i and j.
pointAt(fn, samples, i, j) ==
    CASE fn = "random" -> randomPoint
      [] fn = "sphere" -> spherePoint(samples, i)
      [] fn = "helix" -> helixPoint(samples, i)
      [] fn = "cube" -> cubePoint(samples, i + 1, j)
      [] fn = "cluster" -> clusterPoint
      [] fn = "plane" -> planePoint(samples, i, j)

InitScatter ==
    /\ rc \in {[fn |-> fn, samples |-> n, noise |-> noise, i |-> 0, j |-> 0] :
                  fn \in Scatter3DFn, n \in 1..MaxSamples, noise \in {0, 1}}
    /\ out = <<>>
    /\ pc = "generating"
    /\ componentsFile = <<>>
    /\ wireframe = <<>>
    /\ resolvedFrames = <<>>
    /\ frame = NullNode
    /\ stack = <<>>
    /\ flags = <<>>

\* The loops of the switch have run to their end. For the cube i counts the
\* edges and j the points along an edge; for the plane i and j are the grid
\* indices; for the other functions i is the only index.
loopsDone ==
    CASE rc.fn = "cube" -> rc.i >= edgeCount
      [] rc.fn = "plane" -> rc.i >= gridSize(rc.samples)
      [] OTHER -> rc.i >= rc.samples

\* One points.push(...) and the step of the loop it is in.
pushPoint ==
    /\ pc = "generating"
    /\ ~loopsDone
    /\ out' = Append(out, [i |-> rc.i, j |-> rc.j, moved |-> FALSE] @@ pointAt(rc.fn, rc.samples, rc.i, rc.j))
    /\ rc' = CASE rc.fn = "cube" ->
                    IF rc.j + 1 <= pointsPerEdge(rc.samples)
                    THEN [rc EXCEPT !.j = rc.j + 1]
                    ELSE [rc EXCEPT !.i = rc.i + 1, !.j = 0]
               [] rc.fn = "plane" ->
                    IF rc.j + 1 < gridSize(rc.samples)
                    THEN [rc EXCEPT !.j = rc.j + 1]
                    ELSE [rc EXCEPT !.i = rc.i + 1, !.j = 0]
               [] OTHER -> [rc EXCEPT !.i = rc.i + 1]
    /\ UNCHANGED <<pc, componentsFile, wireframe, resolvedFrames, frame, stack, flags>>

\* "Apply noise", and return points
applyNoise ==
    /\ pc = "generating"
    /\ loopsDone
    /\ out' = IF rc.noise > 0
              THEN [k \in 1..Len(out) |-> [out[k] EXCEPT !.moved = TRUE, !.x = plus(@, Real), !.y = plus(@, Real), !.z = plus(@, Real)]]
              ELSE out
    /\ pc' = "returned"
    /\ UNCHANGED <<rc, componentsFile, wireframe, resolvedFrames, frame, stack, flags>>

NextScatter == pushPoint \/ applyNoise

SpecScatter == InitScatter /\ [][NextScatter]_vars

-----------------------------------------------------------------------------
(* Properties of generateScatterPoints                                     *)

\* C20 as stated: every distribution returns exactly as many points as samples.
C20_ReturnsNPoints ==
    pc = "returned" => Len(out) = rc.samples

\* The least k with k * d >= n, and the least g with g * g >= n.
leastMultiple(n, d) == CHOOSE k \in 0..n : k * d >= n /\ \A h \in 0..(k - 1) : h * d < n
leastSquareRoot(n) == CHOOSE g \in 0..n : g * g >= n /\ \A h \in 0..(g - 1) : h * h < n

\* C20 amended: random, sphere, helix and cluster return exactly N points; cube
\* returns 12 * (ceil(N / 12) + 1) points, and plane ceil(sqrt(N)) squared; the
\* noise moves every point and changes no count.
C20_PointCountPerDistribution ==
    pc = "returned" =>
        /\ rc.fn \in {"random", "sphere", "helix", "cluster"} => Len(out) = rc.samples
        /\ rc.fn = "cube" => Len(out) = 12 * (leastMultiple(rc.samples, 12) + 1)
        /\ rc.fn = "plane" => Len(out) = leastSquareRoot(rc.samples) * leastSquareRoot(rc.samples)
        /\ \A k \in 1..Len(out) : out[k].moved <=> rc.noise > 0

C20_Witness ==
    /\ pc = "returned" /\ rc.fn = "cube" /\ rc.samples = 13 /\ rc.noise > 0
    /\ Len(out) = 36 /\ out[36].moved

-----------------------------------------------------------------------------
(* sampleFunction                                                          *)

\* The functions a chart line may name, and one it may not ("default:").
ChartFn == {"sin", "cos", "tan", "square", "sqrt", "linear", "random", "binary", "other"}

\* props.range || [0, 10], and ranges a chart may give instead
Ranges == {<<0, 10>>, <<-1, 1>>, <<2, 2>>}

ChartDataPoint(x, y) == [x |-> x, y |-> y]

\* const step = (xMax - xMin) / (samples - 1)
step(range, samples) == divide(Whole(range[2] - range[1]), Whole(samples - 1))

\* Math.sqrt(Math.abs(x))
sqrtAbs(x) == IF x.kind = "Infinity" THEN Infinity(1) ELSE IF isFinite(x) THEN Real ELSE NaN

\* The switch over fn; binaryState is the state after the possible flip.
valueOf(fn, x, binaryState) ==
    CASE fn \in {"sin", "cos", "tan"} -> circular(x)
      [] fn = "square" -> times(x, x)
      [] fn = "sqrt" -> sqrtAbs(x)
      [] fn = "linear" -> x
      [] fn = "random" -> Real
      [] fn = "binary" -> Whole(binaryState)
      [] OTHER -> Whole(0)

InitSample ==
    /\ rc \in {[fn |-> fn, range |-> range, samples |-> n, noise |-> noise, i |-> 0, binaryState |-> b] :
                  fn \in ChartFn, range \in Ranges, n \in 1..MaxSamples, noise \in {0, 1},
                  b \in {0, 1}}
    /\ rc.fn # "binary" => rc.binaryState = 0
    /\ out = <<>>
    /\ pc = "sampling"
    /\ componentsFile = <<>>
    /\ wireframe = <<>>
    /\ resolvedFrames = <<>>
    /\ frame = NullNode
    /\ stack = <<>>
    /\ flags = <<>>

\* One turn of the loop: x, the switch, the noise, data.push({ x, y })
samplePoint ==
    /\ pc = "sampling"
    /\ rc.i < rc.samples
    /\ \E flip \in IF rc.fn = "binary" THEN BOOLEAN ELSE {FALSE} :
          LET binaryState == IF flip THEN 1 - rc.binaryState ELSE rc.binaryState
              x == plus(Whole(rc.range[1]), times(Whole(rc.i), step(rc.range, rc.samples)))
              y == valueOf(rc.fn, x, binaryState)
          IN /\ out' = Append(out, ChartDataPoint(x, IF rc.noise > 0 THEN plus(y, Real) ELSE y))
             /\ rc' = [rc EXCEPT !.i = rc.i + 1, !.binaryState = binaryState]
    /\ UNCHANGED <<pc, componentsFile, wireframe, resolvedFrames, frame, stack, flags>>

\* return data
sampleReturn ==
    /\ pc = "sampling"
    /\ rc.i >= rc.samples
    /\ pc' = "sampled"
    /\ UNCHANGED <<rc, out, componentsFile, wireframe, resolvedFrames, frame, stack, flags>>

NextSample == samplePoint \/ sampleReturn

\* Both generators: a behaviour is one call of sampleFunction or one call of
\* generateScatterPoints.
InitGenerators == InitSample \/ InitScatter

NextGenerators == NextSample \/ NextScatter

SpecGenerators == InitGenerators /\ [][NextGenerators]_vars

-----------------------------------------------------------------------------
(* Properties of the generators                                            *)

\* The coordinates of a generated point.
coordinates(p) == IF "z" \in DOMAIN p THEN {p.x, p.y, p.z} ELSE {p.x, p.y}

\* C21 as stated: for every positive sample count no generator emits a NaN or
\* an infinite coordinate (which is what a division by zero would produce).
C21_NoNaNOrInfinity ==
    \A k \in 1..Len(out) : \A c \in coordinates(out[k]) : isFinite(c)

-----------------------------------------------------------------------------
(* useWebGLSlot: the WebGL context slot manager                            *)
(* rc holds the three module-level collections: activeSlots and            *)
(* pendingReleases as sets, waitingCallbacks as the sequence of its keys   *)
(* in insertion order (the order Map.entries() iterates in). stack is the  *)
(* microtask queue of disposeWebGLContext, and flags the state of every    *)
(* component that uses the hook. A waiter's grant callback sets its        *)
(* hasSlot and its stillWants callback reads its shouldMountRef, so the    *)
(* map's values need no storage of their own.                              *)

MAX_CONTEXTS == 16

\* Components that mount, toggle shouldMount and unmount.
NumComponents == 3

Components == 1..NumComponents

\* Components that hold a slot from the start and keep it: they leave two
\* slots fewer than there are components that ask for one.
Residents == (NumComponents + 1)..(MAX_CONTEXTS + 2)

\* Symbol('release'): a symbol no pending release carries; no more releases
\* can be pending than there are slots the residents leave.
ReleaseIds == 1..(MAX_CONTEXTS - Cardinality(Residents))

noSymbol == 0

noComponent == 0

activeSlots == rc.activeSlots

pendingReleases == rc.pendingReleases

waitingCallbacks == rc.waitingCallbacks

without(seq, id) == SelectSeq(seq, LAMBDA e : e # id)

getTotalInUse(m) == Cardinality(m.activeSlots) + Cardinality(m.pendingReleases)

\* tryAcquire as it would be if pending releases were not counted.
tryAcquire_ActiveOnly(m, id) ==
    IF id \in m.activeSlots THEN [m |-> m, result |-> TRUE]
    ELSE IF Cardinality(m.activeSlots) < MAX_CONTEXTS
         THEN [m |-> [m EXCEPT !.activeSlots = @ \cup {id}, !.waitingCallbacks = without(@, id)], result |-> TRUE]
         ELSE [m |-> [m EXCEPT !.waitingCallbacks = Append(without(@, id), id)], result |-> FALSE]

\* tryAcquire(id, onGrant, stillWants): the collections after the call and
\* the value returned
tryAcquire(m, id) ==
    IF id \in m.activeSlots THEN [m |-> m, result |-> TRUE]
    ELSE IF getTotalInUse(m) < MAX_CONTEXTS
         THEN [m |-> [m EXCEPT !.activeSlots = @ \cup {id}, !.waitingCallbacks = without(@, id)], result |-> TRUE]
         ELSE [m |-> [m EXCEPT !.waitingCallbacks = Append(without(@, id), id)], result |-> FALSE]

\* release(id): the collections after the call and the release symbol, or
\* noSymbol for null
release(m, id) ==
    LET hadSlot == id \in m.activeSlots
        releaseId == CHOOSE r \in ReleaseIds : r \notin m.pendingReleases /\ \A q \in ReleaseIds : q < r => q \in m.pendingReleases
    IN IF hadSlot
       THEN [m |-> [m EXCEPT !.activeSlots = @ \ {id}, !.waitingCallbacks = without(@, id), !.pendingReleases = @ \cup {releaseId}], result |-> releaseId]
       ELSE [m |-> [m EXCEPT !.waitingCallbacks = without(@, id)], result |-> noSymbol]

\* grantToNextWaiting(): the collections after the loop and the component
\* whose grant callback was called, if any; wants[id] is what the stillWants
\* callback of id returns
RECURSIVE grantToNextWaiting(_, _)

\* grantToNextWaiting as it would be if it looked at the head of the queue
\* only: an entry whose stillWants() is false is removed and nobody is granted.
grantToNextWaiting_HeadOnly(m, wants) ==
    IF Len(m.waitingCallbacks) > 0 /\ getTotalInUse(m) < MAX_CONTEXTS
    THEN LET nextId == Head(m.waitingCallbacks)
             popped == [m EXCEPT !.waitingCallbacks = Tail(@)]
         IN IF wants[nextId]
            THEN [m |-> [popped EXCEPT !.activeSlots = @ \cup {nextId}], granted |-> nextId]
            ELSE [m |-> popped, granted |-> noComponent]
    ELSE [m |-> m, granted |-> noComponent]

grantToNextWaiting(m, wants) ==
    IF Len(m.waitingCallbacks) > 0 /\ getTotalInUse(m) < MAX_CONTEXTS
    THEN LET nextId == Head(m.waitingCallbacks)
             popped == [m EXCEPT !.waitingCallbacks = Tail(@)]
         IN IF wants[nextId]
            THEN [m |-> [popped EXCEPT !.activeSlots = @ \cup {nextId}], granted |-> nextId]
            ELSE grantToNextWaiting(popped, wants)
    ELSE [m |-> m, granted |-> noComponent]

\* confirmDisposed(releaseId)
confirmDisposed(m, releaseId, wants) ==
    IF releaseId \in m.pendingReleases
    THEN grantToNextWaiting([m EXCEPT !.pendingReleases = @ \ {releaseId}], wants)
    ELSE [m |-> m, granted |-> noComponent]

\* A component that is not mounted.
unmounted == [mounted |-> FALSE, shouldMount |-> FALSE, shouldMountRef |-> FALSE, effectPending |-> FALSE, hasSlot |-> FALSE]

\* () => shouldMountRef.current, for every component
stillWants == [c \in Components \cup Residents |-> IF c \in Components THEN flags[c].shouldMountRef ELSE TRUE]

InitSlots ==
    /\ rc = [activeSlots |-> Residents, pendingReleases |-> {}, waitingCallbacks |-> <<>>]
    /\ stack = <<>>
    /\ flags = [c \in Components |-> unmounted]
    /\ pc = "slots"
    /\ out = <<>>
    /\ componentsFile = <<>>
    /\ wireframe = <<>>
    /\ resolvedFrames = <<>>
    /\ frame = NullNode

\* The first render of a component: useState(false), useRef(shouldMount);
\* both effects are due.
mount(c, shouldMount) ==
    /\ pc = "slots"
    /\ ~flags[c].mounted
    /\ flags' = [flags EXCEPT ![c] = [mounted |-> TRUE, shouldMount |-> shouldMount, shouldMountRef |-> shouldMount, effectPending |-> TRUE, hasSlot |-> FALSE]]
    /\ UNCHANGED <<rc, stack, pc, out, componentsFile, wireframe, resolvedFrames, frame>>

\* A render with a changed shouldMount: the ref is brought in sync while
\* rendering, and the effect that depends on [shouldMount] is due.
render(c) ==
    /\ pc = "slots"
    /\ flags[c].mounted
    /\ ~flags[c].effectPending
    /\ flags' = [flags EXCEPT ![c].shouldMount = ~@, ![c].shouldMountRef = ~flags[c].shouldMount, ![c].effectPending = TRUE]
    /\ UNCHANGED <<rc, stack, pc, out, componentsFile, wireframe, resolvedFrames, frame>>

\* "Acquire or release based on shouldMount"
effect(c) ==
    /\ pc = "slots"
    /\ flags[c].mounted
    /\ flags[c].effectPending
    /\ IF flags[c].shouldMount
       THEN LET gotSlot == tryAcquire(rc, c)
            IN /\ rc' = gotSlot.m
               /\ flags' = [flags EXCEPT ![c].effectPending = FALSE, ![c].hasSlot = IF gotSlot.result THEN TRUE ELSE @]
               /\ UNCHANGED stack
       ELSE LET released == release(rc, c)
            IN /\ rc' = released.m
               /\ stack' = IF released.result # noSymbol THEN Append(stack, released.result) ELSE stack
               /\ flags' = [flags EXCEPT ![c].effectPending = FALSE, ![c].hasSlot = FALSE]
    /\ UNCHANGED <<pc, out, componentsFile, wireframe, resolvedFrames, frame>>

\* "Cleanup on unmount only"
unmount(c) ==
    /\ pc = "slots"
    /\ flags[c].mounted
    /\ ~flags[c].effectPending
    /\ LET released == release(rc, c)
       IN /\ rc' = released.m
          /\ stack' = IF released.result # noSymbol THEN Append(stack, released.result) ELSE stack
    /\ flags' = [flags EXCEPT ![c] = unmounted]
    /\ UNCHANGED <<pc, out, componentsFile, wireframe, resolvedFrames, frame>>

\* The microtask disposeWebGLContext queued: confirmDisposed(releaseId); the
\* grant callback of the component it grants to calls setHasSlot(true).
microtask ==
    /\ pc = "slots"
    /\ stack # <<>>
    /\ LET confirmed == confirmDisposed(rc, Head(stack), stillWants)
       IN /\ rc' = confirmed.m
          /\ flags' = IF confirmed.granted \in Components
                      THEN [flags EXCEPT ![confirmed.granted].hasSlot = TRUE]
                      ELSE flags
    /\ stack' = Tail(stack)
    /\ UNCHANGED <<pc, out, componentsFile, wireframe, resolvedFrames, frame>>

NextSlots ==
    \/ \E c \in Components, shouldMount \in BOOLEAN : mount(c, shouldMount)
    \/ \E c \in Components : render(c)
    \/ \E c \in Components : effect(c)
    \/ \E c \in Components : unmount(c)
    \/ microtask

SpecSlots == InitSlots /\ [][NextSlots]_vars

\* A microtask that has been queued runs: the event loop empties the microtask
\* queue before it does anything else.
SpecSlotsLive == SpecSlots /\ WF_vars(microtask)

-----------------------------------------------------------------------------
(* Properties of the slot manager                                          *)

\* A step that adds a component to activeSlots: by tryAcquire, or by
\* grantToNextWaiting after the confirmed release has been deleted.
granted == activeSlots' \ activeSlots

\* A step that deletes a release from pendingReleases.
confirmedReleases == pendingReleases \ pendingReleases'

\* C22: activeSlots.size + pendingReleases.size never exceeds MAX_CONTEXTS; a
\* slot is granted, directly or to a waiter, only when the active slots and the
\* releases still pending count fewer than MAX_CONTEXTS; a slot that leaves
\* activeSlots is replaced by a pending release of its own, and a pending
\* release is deleted only by the microtask that confirms that very release.
C22_SlotBound ==
    /\ [](getTotalInUse(rc) <= MAX_CONTEXTS)
    /\ [][/\ granted # {} => Cardinality(activeSlots) + Cardinality(pendingReleases') < MAX_CONTEXTS
          /\ Cardinality(granted) <= 1
          /\ \A c \in activeSlots \ activeSlots' : Cardinality(pendingReleases' \ pendingReleases) = 1
          /\ \A r \in confirmedReleases : stack # <<>> /\ Head(stack) = r /\ confirmedReleases = {r}]_vars

\* Every slot is in use, one of them by a release that is not yet confirmed,
\* and a component is queued.
C22_Witness ==
    /\ pc = "slots"
    /\ getTotalInUse(rc) = MAX_CONTEXTS
    /\ pendingReleases # {}
    /\ Len(waitingCallbacks) > 0

\* The positions in the queue of the requesters whose stillWants() is true.
wanted == {k \in 1..Len(waitingCallbacks) : stillWants[waitingCallbacks[k]]}

\* The position of the earliest-queued of them.
earliest == CHOOSE k \in wanted : \A j \in wanted : k <= j

\* The requesters in the queue after the step.
stillQueued == {waitingCallbacks'[k] : k \in 1..Len(waitingCallbacks')}

queued(c) == \E k \in 1..Len(waitingCallbacks) : waitingCallbacks[k] = c

\* A step that confirms a release while requesters are waiting makes the
\* earliest-queued requester whose stillWants() is true active and nobody else;
\* without such a requester it makes nobody active.
earliestGranted ==
    (confirmedReleases # {} /\ Len(waitingCallbacks) > 0) =>
        granted = IF wanted = {} THEN {} ELSE {waitingCallbacks[earliest]}

\* Such a step leaves no requester whose stillWants() is false in the queue.
unwantedDropped ==
    (confirmedReleases # {} /\ Len(waitingCallbacks) > 0) =>
        \A k \in 1..Len(waitingCallbacks) : ~stillWants[waitingCallbacks[k]] => waitingCallbacks[k] \notin stillQueued

\* Such a step removes the requesters up to the one it makes active, or all of
\* them if it makes nobody active; the requesters queued behind the one made
\* active stay queued in their order, whatever their stillWants() returns.
unwantedAheadDropped ==
    (confirmedReleases # {} /\ Len(waitingCallbacks) > 0) =>
        waitingCallbacks' = IF wanted = {} THEN <<>>
                            ELSE SubSeq(waitingCallbacks, earliest + 1, Len(waitingCallbacks))

\* Every pending release is eventually confirmed.
releasesConfirmed == \A r \in ReleaseIds : (r \in pendingReleases) ~> (r \notin pendingReleases)

\* No capacity is free while a requester that still wants a slot is waiting.
noIdleCapacity == wanted # {} => getTotalInUse(rc) = MAX_CONTEXTS

\* No requester becomes active while another that still wants a slot is queued,
\* unless it was queued ahead of that one.
firstInFirstOut ==
    \A k \in wanted : \A d \in granted : \E j \in 1..k : waitingCallbacks[j] = d

\* If releases keep being confirmed, a queued requester becomes active unless
\* it stops wanting a slot.
eventuallyGranted ==
    \A c \in Components : ([]<><<microtask>>_vars) => (queued(c) ~> (c \in activeSlots \/ ~stillWants[c]))

\* C30 as stated: when a release is confirmed while requesters are waiting, the
\* earliest-queued requester whose stillWants() is true becomes active in that
\* step and the requesters whose stillWants() is false are dropped; every
\* pending release is eventually confirmed, no capacity stays free while a
\* requester that still wants a slot waits, and a requester that keeps wanting
\* a slot is eventually granted one, in FIFO order, if holders keep releasing.
C30_SlotLiveness ==
    /\ [][earliestGranted /\ unwantedDropped /\ firstInFirstOut]_vars
    /\ []noIdleCapacity
    /\ releasesConfirmed
    /\ eventuallyGranted

\* C30 as amended: the same, except that only the requesters queued ahead of
\* the one that becomes active are dropped (all of them if nobody becomes
\* active); a requester queued behind it stays queued even if its stillWants()
\* is false.
C30_SlotLivenessAheadDropped ==
    /\ [][earliestGranted /\ unwantedAheadDropped /\ firstInFirstOut]_vars
    /\ []noIdleCapacity
    /\ releasesConfirmed
    /\ eventuallyGranted

\* A confirmation is due while the queue holds a requester that still wants a
\* slot and, behind it, one that has rendered with shouldMount false and whose
\* effect has not yet run.
C30_Witness ==
    /\ pc = "slots"
    /\ stack # <<>>
    /\ Head(stack) \in pendingReleases
    /\ Len(waitingCallbacks) = 2
    /\ stillWants[waitingCallbacks[1]]
    /\ ~stillWants[waitingCallbacks[2]]

-----------------------------------------------------------------------------
(* Row/column duality of computeChildContext                               *)
(* One renderChildren loop is run twice: on its arguments, and on the      *)
(* arguments transposed. out collects the contexts of the first run and    *)
(* flags those of the second.                                              *)

\* Largest number of children of the container the two runs work on.
MaxSiblings == 2

\* row becomes column, and column (spelled out or by default) becomes row
transposeLayout(layout) == IF layout = "row" THEN "column" ELSE "row"

\* [vertical, horizontal] becomes [horizontal, vertical]
transposePadding(padding) == IF Len(padding) = 2 THEN <<padding[2], padding[1]>> ELSE padding

\* top and left change places, and so do bottom and right
transposeContext(ctx) == RenderContext(ctx.collapseLeft, ctx.collapseTop, ctx.collapseRight, ctx.collapseBottom)

RECURSIVE transposeNode(_)
transposeNode(node) ==
    IF node.type \in {"box", "frame"}
    THEN [node EXCEPT !.layout = transposeLayout(@), !.padding = transposePadding(@), !.children = [k \in 1..Len(node.children) |-> transposeNode(node.children[k])]]
    ELSE node

DualLayouts == {"row", "column", Undef}

DualGaps == {<<>>, <<8>>}

DualContexts == {defaultContext, RenderContext(TRUE, FALSE, FALSE, FALSE), RenderContext(FALSE, TRUE, FALSE, FALSE), RenderContext(FALSE, FALSE, TRUE, FALSE), RenderContext(FALSE, FALSE, FALSE, TRUE), RenderContext(TRUE, TRUE, TRUE, TRUE)}

InitDual ==
    /\ rc \in [children : SeqsUpTo(Kids, MaxSiblings) \ {<<>>},
               parentLayout : DualLayouts, parentGap : DualGaps, parentPadding : Paddings,
               parentHasOutline : BOOLEAN, parentHasGrow : BOOLEAN,
               parentContext : DualContexts, i : {0}]
    /\ out = <<>>
    /\ flags = <<>>
    /\ pc = "dual"
    /\ frame = NullNode
    /\ stack = <<>>
    /\ wireframe = <<>>
    /\ componentsFile = <<>>
    /\ resolvedFrames = <<>>

\* The context of child i, and the context of the transposed child i under the
\* transposed parent.
dualStep ==
    /\ pc = "dual"
    /\ rc.i < Len(rc.children)
    /\ out' = Append(out,
                computeChildContext(rc.children[rc.i + 1], rc.i, Len(rc.children),
                                    rc.parentLayout, rc.parentGap, rc.parentPadding,
                                    rc.parentHasOutline, rc.parentHasGrow,
                                    prevChildAt(rc.children, rc.i), rc.parentContext))
    /\ flags' = Append(flags,
                computeChildContext(transposeNode(rc.children[rc.i + 1]), rc.i, Len(rc.children),
                                    transposeLayout(rc.parentLayout), rc.parentGap, transposePadding(rc.parentPadding),
                                    rc.parentHasOutline, rc.parentHasGrow,
                                    transposeNode(prevChildAt(rc.children, rc.i)), transposeContext(rc.parentContext)))
    /\ rc' = [rc EXCEPT !.i = rc.i + 1]
    /\ UNCHANGED <<pc, frame, stack, wireframe, componentsFile, resolvedFrames>>

NextDual == dualStep

SpecDual == InitDual /\ [][NextDual]_vars

\* C23: the context computed for a child is the transpose of the context
\* computed for the transposed child under the transposed parent.
C23_RowColumnDuality ==
    pc = "dual" => \A k \in 1..Len(out) : out[k] = transposeContext(flags[k])

\* A row parent whose second child collapses its left edge only, while its
\* transposed twin under the column parent collapses its top edge only.
C23_Witness ==
    /\ pc = "dual" /\ rc.parentLayout = "row" /\ Len(out) = 2
    /\ out[2] = RenderContext(FALSE, TRUE, FALSE, FALSE)
    /\ flags[2] = RenderContext(TRUE, FALSE, FALSE, FALSE)

-----------------------------------------------------------------------------
(* resolveNode on one component instance whose variant holds Each-Blocks   *)
(* and Children-Slots                                                      *)

\* Largest number of elements of the array an instance hands to $each.
MaxElements == 2

S_Menu == <<"M", "e", "n", "u">>
S_Panel == <<"P", "a", "n", "e", "l">>
S_Grid == <<"G", "r", "i", "d">>
S_Deck == <<"D", "e", "c", "k">>
S_title == <<"t", "i", "t", "l", "e">>
S_titleSlot == <<"{", "{", "t", "i", "t", "l", "e", "}", "}">>
S_Inbox == <<"I", "n", "b", "o", "x">>

BoxOf(children) == Node(S_Box, JObj(<<Prop(S_children, children)>>))

\* The components file. Menu repeats two Texts per item, one showing the item
\* and one the instance's title. Panel holds an Each-Block and a Children-Slot
\* two Boxes deep. Grid holds an Each-Block inside the $template of an
\* Each-Block, and Deck a Children-Slot inside the $template of an Each-Block.
ScopeLibrary ==
    JObj(<<
      Prop(S_Menu, ComponentDefinition(<<
          Prop(S_default, JArr(<<
              BoxOf(EachBlock(S_items, JArr(<<TextSpec(S_itemLabelSlot), TextSpec(S_titleSlot)>>)))>>))>>)),
      Prop(S_Panel, ComponentDefinition(<<
          Prop(S_default, JArr(<<
              BoxOf(JArr(<<
                  BoxOf(JArr(<<BoxOf(EachBlock(S_items, JArr(<<TextSpec(S_itemLabelSlot)>>)))>>)),
                  BoxOf(JArr(<<BoxOf(JStr(S_childrenSlot))>>))>>))>>))>>)),
      Prop(S_Grid, ComponentDefinition(<<
          Prop(S_default, JArr(<<
              BoxOf(EachBlock(S_items, JArr(<<
                  BoxOf(EachBlock(S_items, JArr(<<TextSpec(S_title)>>)))>>)))>>))>>)),
      Prop(S_Deck, ComponentDefinition(<<
          Prop(S_default, JArr(<<
              BoxOf(EachBlock(S_items, JArr(<<BoxOf(JStr(S_childrenSlot))>>)))>>))>>))
    >>)

\* The elements of an items array: a bare string, a record with a label and a
\* record without one.
Elements == {JStr(S_Save), JObj(<<Prop(S_label, JStr(S_main))>>), EmptyObj}

\* What an instance may say for each of its properties; <<>> is a property
\* the instance does not have.
ItemsProps == {<<>>} \cup {<<Prop(S_items, JArr(a))>> : a \in SeqsUpTo(Elements, MaxElements)}

TitleProps == {<<>>, <<Prop(S_title, JStr(S_Inbox))>>}

ItemProps == {<<>>, <<Prop(S_item, JStr(S_caption))>>, <<Prop(S_item, JObj(<<Prop(S_label, JStr(S_caption))>>))>>}

ChildrenProps == {<<>>, <<Prop(S_children, JArr(<<TextSpec(S_Save)>>))>>, <<Prop(S_children, JArr(<<TextSpec(S_Save), BoxOf(JArr(<<>>))>>))>>}

ScopeInstances ==
    {Node(name, JObj(items \o title \o item \o children)) :
        name \in {S_Menu, S_Panel, S_Grid, S_Deck}, items \in ItemsProps, title \in TitleProps,
        item \in ItemProps, children \in ChildrenProps}
    \cup {Node(S_Menu, JNull)}

\* rc is the instance, out what resolveNode returns for it.
InitInstance ==
    /\ rc \in ScopeInstances
    /\ componentsFile = ScopeLibrary
    /\ out = <<>>
    /\ pc = "resolving instance"
    /\ wireframe = <<>>
    /\ resolvedFrames = <<>>
    /\ frame = NullNode
    /\ stack = <<>>
    /\ flags = <<>>

\* resolveNode(node, components) returns
resolveInstanceReturn ==
    /\ pc = "resolving instance"
    /\ ~resolveNode(rc, componentsFile, EmptyObj).throws
    /\ out' = resolveNode(rc, componentsFile, EmptyObj).nodes
    /\ pc' = "instance resolved"
    /\ UNCHANGED <<rc, componentsFile, wireframe, resolvedFrames, frame, stack, flags>>

\* resolveNode(node, components) throws
resolveInstanceThrows ==
    /\ pc = "resolving instance"
    /\ resolveNode(rc, componentsFile, EmptyObj).throws
    /\ pc' = "instance thrown"
    /\ UNCHANGED <<rc, out, componentsFile, wireframe, resolvedFrames, frame, stack, flags>>

NextInstance == resolveInstanceReturn \/ resolveInstanceThrows

SpecInstance == InitInstance /\ [][NextInstance]_vars

-----------------------------------------------------------------------------
(* Properties of Each-Blocks and Children-Slots inside a variant           *)

instanceName == rc.o[1].key

instanceProps == rc.o[1].val

instanceItems == getProp(instanceProps, S_items).a

instanceOf(name) == instanceName = name /\ instanceProps.k = "object" /\ hasOwn(instanceProps, S_items)

ownsItem == hasOwn(instanceProps, S_item)

\* What {{item.label}} is to show for an element of the array.
labelOf(element) ==
    IF element.k = "string" THEN element.s
    ELSE IF hasOwn(element, S_label) THEN getProp(element, S_label).s
    ELSE <<>>

\* What {{title}} is to show: the instance's title, or the placeholder itself
\* when the instance has none.
titleOf(props) == IF hasOwn(props, S_title) THEN getProp(props, S_title).s ELSE S_titleSlot

textOf(content) == ResolvedNode("text", JObj(<<Prop(S_content, JStr(content))>>), <<>>)

\* The children of the Menu's Box: for the i-th element a Text showing that
\* element's label, then a Text showing the instance's title.
menuBound ==
    /\ Len(out) = 1
    /\ Len(out[1].children) = 2 * Len(instanceItems)
    /\ \A i \in 1..Len(instanceItems) :
          /\ out[1].children[2 * i - 1] = textOf(labelOf(instanceItems[i]))
          /\ out[1].children[2 * i] = textOf(titleOf(instanceProps))

\* C24 as stated: in the expansion for the i-th element {{item.label}} shows
\* that element (a bare string showing itself) and {{title}} shows the
\* instance's title, whether or not the instance has a property named item.
C24_ItemBoundToElement ==
    (pc = "instance resolved" /\ instanceOf(S_Menu)) => menuBound

\* How many children the instance hands to a Children-Slot.
slotCount ==
    IF hasOwn(instanceProps, S_children) /\ getProp(instanceProps, S_children).k = "array"
    THEN Len(getProp(instanceProps, S_children).a)
    ELSE 0

\* Panel: the Each-Block and the Children-Slot lie two Boxes deep.
panelScoped ==
    /\ Len(out) = 1 /\ Len(out[1].children) = 2
    /\ Len(out[1].children[1].children) = 1
    /\ Len(out[1].children[1].children[1].children) = Len(instanceItems)
    /\ Len(out[1].children[2].children) = 1
    /\ Len(out[1].children[2].children[1].children) = slotCount

\* Grid: every expansion of the outer Each-Block holds an Each-Block over the
\* instance's items again.
gridScoped ==
    /\ Len(out) = 1 /\ Len(out[1].children) = Len(instanceItems)
    /\ \A i \in 1..Len(out[1].children) :
          out[1].children[i].children = [j \in 1..Len(instanceItems) |-> textOf(S_title)]

\* Deck: every expansion of the Each-Block holds the instance's children.
deckScoped ==
    /\ Len(out) = 1 /\ Len(out[1].children) = Len(instanceItems)
    /\ \A i \in 1..Len(out[1].children) : Len(out[1].children[i].children) = slotCount

\* C25 as stated: an Each-Block or a Children-Slot anywhere inside the variant,
\* nested in Boxes or inside the $template of another Each-Block, is resolved
\* against the properties of the instance: it repeats once per element of the
\* instance's array, or holds the instance's children.
C25_BlocksSeeInstanceProps ==
    pc = "instance resolved" =>
        /\ instanceOf(S_Panel) => panelScoped
        /\ instanceOf(S_Grid) => gridScoped
        /\ instanceOf(S_Deck) => deckScoped

-----------------------------------------------------------------------------
(* hasLeadingOutline / hasTrailingOutline asked of one node                *)

\* outline as a box may carry it after substitution: absent, none, a border
\* style, or the empty string
Outlines == {Undef, "none", "thin", ""}

Directions == {"top", "left", "bottom", "right"}

\* The nodes asked about: a text, and boxes of every layout, padding and
\* outline over up to MaxSiblings children.
Asked ==
    {TextNode} \cup
    {BoxNode(layout, <<>>, padding, outline, <<>>, children) :
        layout \in DualLayouts, padding \in Paddings, outline \in Outlines,
        children \in SeqsUpTo(Kids, MaxSiblings)}

InitOutline ==
    /\ rc \in [node : Asked, direction : Directions]
    /\ out = <<>>
    /\ pc = "asking"
    /\ frame = NullNode
    /\ stack = <<>>
    /\ flags = <<>>
    /\ wireframe = <<>>
    /\ componentsFile = <<>>
    /\ resolvedFrames = <<>>

\* hasLeadingOutline(node, 'top' | 'left') returns
askLeading ==
    /\ pc = "asking"
    /\ rc.direction \in {"top", "left"}
    /\ out' = <<hasLeadingOutline(rc.node, rc.direction)>>
    /\ pc' = "answered"
    /\ UNCHANGED <<rc, frame, stack, flags, wireframe, componentsFile, resolvedFrames>>

\* hasTrailingOutline(node, 'bottom' | 'right') returns
askTrailing ==
    /\ pc = "asking"
    /\ rc.direction \in {"bottom", "right"}
    /\ out' = <<hasTrailingOutline(rc.node, rc.direction)>>
    /\ pc' = "answered"
    /\ UNCHANGED <<rc, frame, stack, flags, wireframe, componentsFile, resolvedFrames>>

NextOutline == askLeading \/ askTrailing

SpecOutline == InitOutline /\ [][NextOutline]_vars

-----------------------------------------------------------------------------
(* Properties of hasLeadingOutline / hasTrailingOutline                    *)

leading == rc.direction \in {"top", "left"}

\* The answer for one child of the node asked about.
childAnswer(k) ==
    IF leading THEN hasLeadingOutline(rc.node.children[k], rc.direction)
    ELSE hasTrailingOutline(rc.node.children[k], rc.direction)

\* The child at the asked end of the node: the first for a leading edge, the
\* last for a trailing edge.
endChild == IF leading THEN 1 ELSE Len(rc.node.children)

\* "Bordered" as the analysis has it: hasOutline(node).
bordered == hasOutline(rc.node)

\* The node's padding on the asked edge.
edgePadding ==
    LET pad == getPadding(rc.node.padding)
    IN CASE rc.direction = "top" -> pad.top
         [] rc.direction = "left" -> pad.left
         [] rc.direction = "bottom" -> pad.bottom
         [] rc.direction = "right" -> pad.right

\* The answer is decided without looking at a child.
decidedAtNode ==
    \/ bordered
    \/ rc.node.type \notin {"box", "frame"}
    \/ Len(rc.node.children) = 0
    \/ edgePadding > 0

\* The asked edge runs along the node's main axis end: top and bottom of a
\* column, left and right of a row.
mainAxisEdge == (rc.direction \in {"top", "bottom"}) <=> (rc.node.layout # "row")

\* C26 as stated: true for a bordered node; false for a non-container, a
\* childless unbordered container and an unbordered container padded on the
\* asked edge; otherwise the answer of the single child at the asked end.
C26_SingleChildChain ==
    pc = "answered" =>
        out[1] = IF bordered THEN TRUE
                 ELSE IF decidedAtNode THEN FALSE
                 ELSE childAnswer(endChild)

\* C26 amended: as stated, but the single child at the asked end answers only
\* for an edge at an end of the node's main axis (top or bottom of a column,
\* left or right of a row); for an edge all children share (left or right of a
\* column, top or bottom of a row) the answer is true when any child's is.
C26_EdgeChain ==
    pc = "answered" =>
        out[1] = IF bordered THEN TRUE
                 ELSE IF decidedAtNode THEN FALSE
                 ELSE IF mainAxisEdge THEN childAnswer(endChild)
                 ELSE \E k \in 1..Len(rc.node.children) : childAnswer(k)

\* A column whose second child alone is bordered is asked for its left edge.
C26_Witness ==
    /\ pc = "answered" /\ rc.direction = "left" /\ rc.node.type = "box"
    /\ rc.node.layout = "column" /\ ~bordered /\ edgePadding = 0
    /\ Len(rc.node.children) = 2
    /\ ~childAnswer(1) /\ childAnswer(2)
    /\ out[1] = TRUE

-----------------------------------------------------------------------------
(* renderNode on one box, run twice: under the context ctxA and under the  *)
(* context ctxB. stack holds the renderChildren calls in progress of both  *)
(* runs, flags the contexts the first run hands to every node and out      *)
(* those the second run hands to it.                                       *)

\* A bordered box with children of its own, one of them an unbordered wrapper.
Shelf ==
    BoxNode("column", <<>>, <<>>, "thin", <<>>,
            <<Leaf("thin", <<>>), BoxNode("row", <<>>, <<>>, Undef, <<>>, <<Leaf("thin", <<>>)>>)>>)

ResetKids == Kids \cup {Shelf}

ResetContexts == {defaultContext, RenderContext(TRUE, TRUE, TRUE, TRUE), RenderContext(TRUE, FALSE, FALSE, FALSE), RenderContext(FALSE, FALSE, TRUE, TRUE)}

ResetRoots ==
    {BoxNode(layout, <<>>, padding, outline, <<>>, children) :
        layout \in Layouts, padding \in {<<>>, <<16>>}, outline \in {Undef, "thin"},
        children \in SeqsUpTo(ResetKids, MaxSiblings)}

InitReset ==
    /\ rc \in [node : ResetRoots, ctxA : ResetContexts, ctxB : ResetContexts]
    /\ stack = <<>>
    /\ flags = <<>>
    /\ out = <<>>
    /\ pc = "enter"
    /\ frame = NullNode
    /\ wireframe = <<>>
    /\ componentsFile = <<>>
    /\ resolvedFrames = <<>>

\* renderNode(node, ctx) for the box, in both runs.
resetEnter ==
    /\ pc = "enter"
    /\ flags' = <<[path |-> <<>>, ctx |-> rc.ctxA]>>
    /\ out' = <<[path |-> <<>>, ctx |-> rc.ctxB]>>
    /\ stack' = <<[a |-> childrenCall(rc.node, rc.ctxA, <<>>), b |-> childrenCall(rc.node, rc.ctxB, <<>>)]>>
    /\ pc' = "both walk"
    /\ UNCHANGED <<rc, frame, wireframe, componentsFile, resolvedFrames>>

\* The context one run computes for the next child of its innermost call.
nextContext(top) ==
    computeChildContext(top.children[top.i + 1], top.i, Len(top.children),
                        top.parentLayout, top.parentGap, top.parentPadding,
                        top.parentHasOutline, top.parentHasGrow,
                        prevChildAt(top.children, top.i), top.parentContext)

\* The renderChildren call, if any, that renderNode(child, ctx) makes.
callsFor(child, ctx, path) ==
    IF child.type = "box" THEN <<childrenCall(child, ctx, path)>>
    ELSE IF child.type = "frame" THEN <<childrenCall(wrapper(child), defaultContext, path)>>
    ELSE <<>>

\* One iteration of the innermost renderChildren loop, in both runs.
resetChild ==
    /\ pc = "both walk"
    /\ stack # <<>>
    /\ LET top == stack[Len(stack)]
           child == top.a.children[top.a.i + 1]
           path == Append(top.a.path, top.a.i + 1)
           ctxA == nextContext(top.a)
           ctxB == nextContext(top.b)
           advanced == [stack EXCEPT ![Len(stack)].a.i = top.a.i + 1, ![Len(stack)].b.i = top.b.i + 1]
           callsA == callsFor(child, ctxA, path)
           callsB == callsFor(child, ctxB, path)
       IN  /\ top.a.i < Len(top.a.children)
           /\ flags' = Append(flags, [path |-> path, ctx |-> IF child.type = "frame" THEN defaultContext ELSE ctxA])
           /\ out' = Append(out, [path |-> path, ctx |-> IF child.type = "frame" THEN defaultContext ELSE ctxB])
           /\ stack' = IF callsA = <<>> THEN advanced
                       ELSE Append(advanced, [a |-> callsA[1], b |-> callsB[1]])
    /\ UNCHANGED <<rc, pc, frame, wireframe, componentsFile, resolvedFrames>>

\* The innermost renderChildren loop has run over all its children.
resetReturn ==
    /\ pc = "both walk"
    /\ stack # <<>>
    /\ stack[Len(stack)].a.i = Len(stack[Len(stack)].a.children)
    /\ stack' = SubSeq(stack, 1, Len(stack) - 1)
    /\ pc' = IF Len(stack) = 1 THEN "both done" ELSE "both walk"
    /\ UNCHANGED <<rc, flags, out, frame, wireframe, componentsFile, resolvedFrames>>

NextReset == resetEnter \/ resetChild \/ resetReturn

SpecReset == InitReset /\ [][NextReset]_vars

-----------------------------------------------------------------------------
(* Properties of the two runs                                              *)

\* The node at a path below the box.
RECURSIVE nodeAt(_, _)
nodeAt(node, path) == IF path = <<>> THEN node ELSE nodeAt(node.children[Head(path)], Tail(path))

\* The path lies below a bordered node: a proper prefix of it leads to one.
belowBorder(path) == \E n \in 0..(Len(path) - 1) : hasOutline(nodeAt(rc.node, SubSeq(path, 1, n)))

\* C27: the two runs hand the same context to every node below a bordered
\* node, whatever contexts the box itself received; and in each run a bordered
\* node starts its children from the all-false default context while an
\* unbordered node starts them from the context it received itself.
C27_ContextResetAtBorders ==
    pc \in {"both walk", "both done"} =>
        /\ \A k \in 1..Len(flags) : belowBorder(flags[k].path) => flags[k].ctx = out[k].ctx
        /\ \A s \in 1..Len(stack) :
              LET call == stack[s].a
                  received == flags[CHOOSE k \in 1..Len(flags) : flags[k].path = call.path].ctx
              IN call.parentContext = IF hasOutline(nodeAt(rc.node, call.path)) THEN defaultContext ELSE received

\* The box is unbordered and received different contexts in the two runs; its
\* bordered child Shelf was handed different contexts too, but the unbordered
\* wrapper inside Shelf was handed the same context in both.
C27_Witness ==
    /\ pc = "both done" /\ ~hasOutline(rc.node) /\ rc.ctxA # rc.ctxB
    /\ Len(rc.node.children) >= 1 /\ rc.node.children[1] = Shelf
    /\ \E k \in 1..Len(flags) : flags[k].path = <<1>> /\ flags[k].ctx # out[k].ctx
    /\ \E k \in 1..Len(flags) : flags[k].path = <<1, 2>> /\ flags[k].ctx = out[k].ctx

-----------------------------------------------------------------------------
(* resolveFrames, then render: boxes whose outline comes out of template   *)
(* substitution are resolved and then painted side by side in a column.    *)

S_Tile == <<"T", "i", "l", "e">>
S_Chip == <<"C", "h", "i", "p">>
S_look == <<"l", "o", "o", "k">>
S_thick == <<"t", "h", "i", "c", "k">>
S_outlineSlot == <<"{", "{", "o", "u", "t", "l", "i", "n", "e", "}", "}">>
S_lookOutlineSlot == <<"{", "{", "l", "o", "o", "k", ".", "o", "u", "t", "l", "i", "n", "e", "}", "}">>

OutlinedBox(outline) == Node(S_Box, JObj(<<Prop(S_outline, JStr(outline))>>))

\* The components file: a Tile draws the outline its instance names, a Chip
\* the outline of its instance's look.
TileLibrary ==
    JObj(<<
      Prop(S_Tile, ComponentDefinition(<<Prop(S_default, JArr(<<OutlinedBox(S_outlineSlot)>>))>>)),
      Prop(S_Chip, ComponentDefinition(<<Prop(S_default, JArr(<<OutlinedBox(S_lookOutlineSlot)>>))>>))
    >>)

Look(props) == JObj(<<Prop(S_look, JObj(props))>>)

\* The children of the frame: boxes written out, and Tiles and Chips that
\* name an outline, name none, or name a look without one.
TileEntries ==
    { OutlinedBox(S_thin),
      Node(S_Box, EmptyObj),
      Node(S_Tile, JObj(<<Prop(S_outline, JStr(S_thin))>>)),
      Node(S_Tile, JObj(<<Prop(S_outline, JStr(S_dashed))>>)),
      Node(S_Tile, JObj(<<Prop(S_outline, JStr(S_thick))>>)),
      Node(S_Tile, JObj(<<Prop(S_outline, JStr(S_none))>>)),
      Node(S_Tile, EmptyObj),
      Node(S_Chip, Look(<<Prop(S_outline, JStr(S_thin))>>)),
      Node(S_Chip, Look(<<Prop(S_outline, JStr(S_none))>>)),
      Node(S_Chip, Look(<<>>)),
      Node(S_Chip, EmptyObj) }

\* A sequence of characters as the string it spells.
RECURSIVE spelled(_)
spelled(chars) == IF chars = <<>> THEN "" ELSE Head(chars) \o spelled(Tail(chars))

\* node.props.outline of a resolved node, as the renderer reads it.
outlineOf(props) ==
    IF hasOwn(props, S_outline) /\ getProp(props, S_outline).k = "string"
    THEN spelled(getProp(props, S_outline).s)
    ELSE Undef

\* A resolved node as the renderer sees it.
RECURSIVE asRendered(_)
asRendered(node) ==
    IF node.type = "box"
    THEN BoxNode(Undef, <<>>, <<>>, outlineOf(node.props), <<>>, [k \in 1..Len(node.children) |-> asRendered(node.children[k])])
    ELSE TextNode

InitPaint ==
    /\ wireframe \in {[frames |-> <<FrameSpec(c)>>] : c \in SeqsUpTo(TileEntries, MaxSiblings) \ {<<>>}}
    /\ componentsFile = TileLibrary
    /\ resolvedFrames = <<>>
    /\ pc = "resolving tiles"
    /\ rc = <<>>
    /\ out = <<>>
    /\ flags = <<>>
    /\ frame = NullNode
    /\ stack = <<>>

\* resolveFrames(wireframe, components) returns, and render starts on the
\* wrapper's children: a column without gap or padding
resolveTiles ==
    /\ pc = "resolving tiles"
    /\ ~resolveNode(wireframe.frames[1], componentsFile, EmptyObj).throws
    /\ resolvedFrames' = <<resolveNode(wireframe.frames[1], componentsFile, EmptyObj).nodes[1]>>
    /\ rc' = childrenCall(wrapper(FrameNode(Undef, <<>>, <<>>, [k \in 1..Len(resolvedFrames'[1].children) |-> asRendered(resolvedFrames'[1].children[k])])), defaultContext, <<>>)
    /\ pc' = "painting"
    /\ UNCHANGED <<wireframe, componentsFile, out, flags, frame, stack>>

\* renderChildren's loop body and renderNode (box) for the child: its context,
\* whether the analysis has it bordered, and the border class it is painted
\* with.
paintChild ==
    /\ pc = "painting"
    /\ rc.i < Len(rc.children)
    /\ LET child == rc.children[rc.i + 1]
       IN out' = Append(out, [ctx |-> nextContext(rc), nodeHasOutline |-> hasOutline(child), outline |-> outlineClass(child.outline)])
    /\ rc' = [rc EXCEPT !.i = rc.i + 1]
    /\ UNCHANGED <<pc, wireframe, componentsFile, resolvedFrames, flags, frame, stack>>

\* The loop has run over all children.
paintReturn ==
    /\ pc = "painting"
    /\ rc.i = Len(rc.children)
    /\ pc' = "painted"
    /\ UNCHANGED <<rc, out, wireframe, componentsFile, resolvedFrames, flags, frame, stack>>

NextPaint == resolveTiles \/ paintChild \/ paintReturn

SpecPaint == InitPaint /\ [][NextPaint]_vars

-----------------------------------------------------------------------------
(* Properties of resolved boxes when painted                               *)

\* C28 as stated: a resolved box is bordered for the analysis exactly when it
\* is painted with a border class, and a box collapses its top edge against
\* the box above it only if that box is painted with a border class.
C28_BorderedIffPainted ==
    \A k \in 1..Len(out) :
        /\ out[k].nodeHasOutline <=> out[k].outline # ""
        /\ (k > 1 /\ out[k].ctx.collapseTop) => out[k - 1].outline # ""

-----------------------------------------------------------------------------
(* The two renderers on one frame: render.ts renderNode / renderChildren,  *)
(* then Frame.tsx Frame / NodeRenderer. Frame.tsx carries its own copies   *)
(* of getPadding, hasOutline, hasGrow, hasLeadingOutline,                  *)
(* hasTrailingOutline and computeChildContext, statement for statement     *)
(* those of render.ts; the two differ in what they pass to them.           *)
(* frame is the resolved frame, stack the calls of the walk in progress,   *)
(* flags the contexts the DOM renderer handed out and out those the React  *)
(* renderer handed out, each with the path of the node that received it.   *)

\* A bordered box whose grow is neither 0 nor 1 (grow: 2 in the YAML).
Tray ==
    BoxNode("column", <<>>, <<>>, "thin", <<2>>, <<Leaf("thin", <<>>)>>)

AgreeKids == Kids \cup {Tray}

AgreeFrames ==
    {FrameNode(layout, <<>>, padding, children) :
        layout \in Layouts, padding \in {<<>>, <<16>>},
        children \in SeqsUpTo(AgreeKids, MaxSiblings)}

InitAgree ==
    /\ frame \in AgreeFrames
    /\ stack = <<>>
    /\ flags = <<>>
    /\ out = <<>>
    /\ pc = "dom enter"
    /\ rc = <<>>
    /\ wireframe = <<>>
    /\ componentsFile = <<>>
    /\ resolvedFrames = <<>>

\* render.ts renderNode(frame): the wrapper receives the default context.
domEnter ==
    /\ pc = "dom enter"
    /\ flags' = <<[path |-> <<>>, ctx |-> defaultContext]>>
    /\ stack' = <<childrenCall(wrapper(frame), defaultContext, <<>>)>>
    /\ pc' = "dom walk"
    /\ UNCHANGED <<rc, out, frame, wireframe, componentsFile, resolvedFrames>>

\* One iteration of the innermost renderChildren loop.
domChild ==
    /\ pc = "dom walk"
    /\ stack # <<>>
    /\ LET top == stack[Len(stack)]
           child == top.children[top.i + 1]
           path == Append(top.path, top.i + 1)
           ctx == nextContext(top)
           advanced == [stack EXCEPT ![Len(stack)].i = top.i + 1]
       IN  /\ top.i < Len(top.children)
           /\ flags' = Append(flags, [path |-> path, ctx |-> IF child.type = "frame" THEN defaultContext ELSE ctx])
           /\ stack' = advanced \o callsFor(child, ctx, path)
    /\ UNCHANGED <<rc, out, pc, frame, wireframe, componentsFile, resolvedFrames>>

\* The innermost renderChildren loop has run over all its children.
domReturn ==
    /\ pc = "dom walk"
    /\ stack # <<>>
    /\ stack[Len(stack)].i = Len(stack[Len(stack)].children)
    /\ stack' = SubSeq(stack, 1, Len(stack) - 1)
    /\ pc' = IF Len(stack) = 1 THEN "react enter" ELSE "dom walk"
    /\ UNCHANGED <<rc, flags, out, frame, wireframe, componentsFile, resolvedFrames>>

\* NodeRenderer on a box that received collapseContext: the arguments of the
\* computeChildContext calls in its node.children.map.
childElements(node, collapseContext, path) ==
    [children |-> node.children,
     parentLayout |-> node.layout, parentGap |-> node.gap, parentPadding |-> node.padding,
     parentHasOutline |-> hasOutline(node), parentHasGrow |-> hasGrow(node),
     parentContext |-> IF hasOutline(node) THEN defaultContext ELSE collapseContext,
     i |-> 0, path |-> path]

\* The map, if any, that <NodeRenderer node={child} collapseContext={ctx}/>
\* runs: NodeRenderer has a branch for a box and none for a frame.
elementsFor(child, ctx, path) ==
    IF child.type = "box" THEN <<childElements(child, ctx, path)>> ELSE <<>>

\* Frame.tsx Frame: <NodeRenderer node={wrapperNode}/>, collapseContext
\* defaulting to defaultCollapse.
reactEnter ==
    /\ pc = "react enter"
    /\ out' = <<[path |-> <<>>, ctx |-> defaultContext]>>
    /\ stack' = <<childElements(wrapper(frame), defaultContext, <<>>)>>
    /\ pc' = "react walk"
    /\ UNCHANGED <<rc, flags, frame, wireframe, componentsFile, resolvedFrames>>

\* One child of the innermost node.children.map.
reactChild ==
    /\ pc = "react walk"
    /\ stack # <<>>
    /\ LET top == stack[Len(stack)]
           child == top.children[top.i + 1]
           path == Append(top.path, top.i + 1)
           childContext == nextContext(top)
           advanced == [stack EXCEPT ![Len(stack)].i = top.i + 1]
       IN  /\ top.i < Len(top.children)
           /\ out' = Append(out, [path |-> path, ctx |-> childContext])
           /\ stack' = advanced \o elementsFor(child, childContext, path)
    /\ UNCHANGED <<rc, flags, pc, frame, wireframe, componentsFile, resolvedFrames>>

\* The innermost map has run over all the children.
reactReturn ==
    /\ pc = "react walk"
    /\ stack # <<>>
    /\ stack[Len(stack)].i = Len(stack[Len(stack)].children)
    /\ stack' = SubSeq(stack, 1, Len(stack) - 1)
    /\ pc' = IF Len(stack) = 1 THEN "walks done" ELSE "react walk"
    /\ UNCHANGED <<rc, flags, out, frame, wireframe, componentsFile, resolvedFrames>>

NextAgree == domEnter \/ domChild \/ domReturn \/ reactEnter \/ reactChild \/ reactReturn

SpecAgree == InitAgree /\ [][NextAgree]_vars

-----------------------------------------------------------------------------
(* Properties of the two renderers                                         *)

\* C29: the DOM renderer and the React renderer hand the same four collapse
\* flags to every node of the frame, in the same order.
C29_WalksAgree ==
    pc = "walks done" => flags = out

====
